---- MODULE Spec2Model ----
(***************************************************************************)
(* Model of the tiered pollen cache of pollen_storm's realtime client      *)
(* (src/ml-model/data/realtime_client): the in-memory date table, the      *)
(* per-date aggregate files, the live fetch with its lookback window, the  *)
(* static baseline and the stale fallback.                                 *)
(*                                                                         *)
(* Python's None is modelled by the empty sequence <<>> and a present      *)
(* value v by <<v>>.  Date keys (YYYYMMDD strings) are day numbers.        *)
(***************************************************************************)
EXTENDS Integers, Sequences, FiniteSets, TLC

\* ------------------------------------------------------------------ bounds
MaxDate == 4              \* date keys are the days 0..MaxDate
NumSources == 2           \* registry sources taken from the built-in set
LookbackDays == 1         \* POLLEN_API_LOOKBACK_DAYS (7 by default)
max_entries == 2          \* _prune_memory_cache's max_entries (370), scaled
MaxOps == 2               \* handler invocations per run
MaxFaults == 1            \* external damage to cache files per run
NumTasks == 2             \* coroutines of the concurrent specification

Dates == 0..MaxDate
Tasks == 1..NumTasks
None == <<>>
Some(v) == <<v>>

\* ---------------------------------------------------------------- registry
\* regions.py _DEFAULT_REGION_ITEMS, in insertion order
DEFAULT_REGION_ITEMS ==
  << [id |-> "tokyo", amedas_station |-> "44132", forecast_city |-> "130010",
      pollen_station |-> "441321000", city_code |-> "13101"],
     [id |-> "osaka", amedas_station |-> "62078", forecast_city |-> "270000",
      pollen_station |-> "620780000", city_code |-> "27128"],
     [id |-> "kyoto", amedas_station |-> "61286", forecast_city |-> "260010",
      pollen_station |-> "612860000", city_code |-> "26104"],
     [id |-> "nagoya", amedas_station |-> "51106", forecast_city |-> "230010",
      pollen_station |-> "511060000", city_code |-> "23106"] >>

\* REGION_SOURCES.values(): the registry the client iterates over
REGION_SOURCES == SubSeq(DEFAULT_REGION_ITEMS, 1, NumSources)

SourceIdx == 1..Len(REGION_SOURCES)
Stations == {REGION_SOURCES[i].pollen_station : i \in SourceIdx}

\* every alias key of a source, as _load_daily_pollen_map and fetch_regions
\* look them up
AliasesOf(s) ==
  {s.city_code, s.pollen_station, s.forecast_city, s.amedas_station, s.id}

\* ----------------------------------------------------------------- entries
\* entry written by _download_city_entry / _download_daily_entries
LiveEntry(city, region, value, sdate) ==
  [citycode |-> city, region_id |-> region, pollen |-> value,
   pollen_count |-> None, source_date |-> Some(sdate), source |-> "live"]

VARIABLES
  daily_cache,          \* self._daily_cache: date key -> alias map
  cache_source_keys,    \* self._cache_source_keys: date key -> provenance
  disk,                 \* CACHE_DIR/pollen_<date>.json, per date
  raw,                  \* dates with a CACHE_DIR/raw/<date> directory
  disable_live_fetch,   \* DISABLE_LIVE_FETCH of the running process
  static_files,         \* STATIC_POLLEN_DIR/<station>.json, per station
  pc,                   \* per coroutine: where it is suspended
  last,                 \* outcome of the last completed call
  inserted,             \* dates a non-empty map was stored for (history)
  nops,                 \* handler invocations so far
  nfaults,              \* I/O failures and file damage so far
  sample_file,          \* the file at self.sample_file
  sample_cache,         \* self._sample_cache
  weather_cache,        \* self._weather_cache: forecast city -> capture
  reply,                \* outcome of the last fetch_regions call
  probe,                \* a helper call on its own: its argument and result
  clock                 \* datetime.now(), in the units of the weather TTL

vars == <<daily_cache, cache_source_keys, disk, raw, disable_live_fetch,
          static_files, pc, last, inserted, nops, nfaults,
          sample_file, sample_cache, weather_cache, reply, probe, clock>>

\* ------------------------------------------------------ delimited payloads
\* a pollen column token of the CSV body: a number, or text that float()
\* rejects (also the missing column)
Num(v) == [numeric |-> TRUE, val |-> v, nan |-> FALSE]
NotNum == [numeric |-> FALSE, val |-> 0, nan |-> FALSE]
\* the text "nan", which float() accepts, and the float it gives
NanText == [numeric |-> TRUE, val |-> 0, nan |-> TRUE]
NaN == "nan"
Row(city, token) == [citycode |-> city, pollen |-> token]

SENTINEL == 0 - 9999

\* the bodies the pollen endpoint may answer a request for `city` with
Bodies(city) ==
  { <<>>,
    << Row(city, Num(12)) >>,
    << Row(city, Num(0 - 5)) >>,
    << Row(city, NotNum) >>,
    << Row("", Num(12)) >>,
    << Row("99999", Num(12)) >>,
    << Row("99999", Num(0 - 5)), Row(city, Num(12)) >> }

\* what one session.get of _download_city_entry can end in: a failure of
\* the request, a body of rows, or a body that csv.DictReader rejects with
\* csv.Error (a field longer than the csv module's field size limit)
FailureKinds == {"timeout", "client_error", "status_500", "status_404"}
Outcomes(city) ==
  {[kind |-> k, rows |-> <<>>] : k \in FailureKinds \cup {"csv_error"}}
    \cup {[kind |-> "body", rows |-> b] : b \in Bodies(city)}

\* value_parsing.py _parse_csv_payload, the pollen column of one row
ParsePollen(token) ==
  IF ~token.numeric THEN None
  ELSE IF token.nan THEN Some(NaN)
  ELSE IF token.val = SENTINEL THEN Some(0)
  ELSE IF token.val < 0 THEN None
  ELSE Some(token.val)

\* _parse_csv_payload: the dict citycode -> row entry, as the list of its
\* items in insertion order (a later row of the same city replaces the value
\* in place)
RECURSIVE ParseCsvPayload(_)
ParseCsvPayload(rows) ==
  IF rows = <<>> THEN <<>>
  ELSE LET init == ParseCsvPayload(SubSeq(rows, 1, Len(rows) - 1))
           row == rows[Len(rows)]
           item == [citycode |-> row.citycode, pollen |-> ParsePollen(row.pollen)]
       IN IF row.citycode = "" THEN init
          ELSE IF \E i \in 1..Len(init) : init[i].citycode = row.citycode
               THEN [i \in 1..Len(init) |->
                       IF init[i].citycode = row.citycode THEN item ELSE init[i]]
               ELSE Append(init, item)

\* parsed.get(city_code), else the first value of parsed
ParsedEntryFor(parsed, city) ==
  IF \E i \in 1..Len(parsed) : parsed[i].citycode = city
  THEN Some(parsed[CHOOSE i \in 1..Len(parsed) : parsed[i].citycode = city])
  ELSE IF parsed # <<>> THEN Some(parsed[1]) ELSE None

\* _build_target_dates: the requested day and the lookback_days before it,
\* most recent first
BuildTargetDates(date_key) == [i \in 1..(LookbackDays + 1) |-> date_key - (i - 1)]

\* the except clauses around session.get in _download_city_entry: every
\* failure of the request is caught and the date skipped
RequestCaught(kind) == kind \in FailureKinds

\* _download_city_entry: outs[i] is the outcome of the request for
\* target_dates[i].  Result: raised, the entry (or None), and whether the raw
\* body was handed to _persist_city_csv
RECURSIVE DownloadCityEntryFrom(_, _, _, _, _)
DownloadCityEntryFrom(i, source, target_dates, outs, tried) ==
  IF i > Len(target_dates)
  THEN [raised |-> FALSE, entry |-> None, persisted |-> FALSE, tried |-> tried]
  ELSE
    LET o == outs[i]
        tried2 == Append(tried, target_dates[i])
        next == DownloadCityEntryFrom(i + 1, source, target_dates, outs, tried2)
    IN IF RequestCaught(o.kind) THEN next
       ELSE IF o.kind = "csv_error"
       THEN \* line 664: _parse_csv_payload is called outside the try
            [raised |-> TRUE, entry |-> None, persisted |-> FALSE,
             tried |-> tried2]
       ELSE
         LET entry == ParsedEntryFor(ParseCsvPayload(o.rows), source.city_code)
         IN IF entry = None THEN next
            ELSE IF entry[1].pollen = None THEN next
            ELSE IF entry[1].pollen[1] < 0 THEN next
            ELSE [raised |-> FALSE,
                  entry |-> Some(LiveEntry(source.city_code, source.id,
                                           entry[1].pollen, target_dates[i])),
                  persisted |-> TRUE, tried |-> tried2]

DownloadCityEntry(source, target_dates, outs) ==
  DownloadCityEntryFrom(1, source, target_dates, outs, <<>>)

\* every result _download_city_entry can give for a source and a date,
\* over all outcomes of the requests of its window
WindowOutcomes(source) == [1..(LookbackDays + 1) -> Outcomes(source.city_code)]
CityResults(source, date_key) ==
  {DownloadCityEntry(source, BuildTargetDates(date_key), outs) :
     outs \in WindowOutcomes(source)}

\* _download_daily_entries: one _download_city_entry per registry source that
\* has a city code, in registry order; res[i] is the result for source i.
\* A raise of one city ends the loop and propagates.  persisted: some raw
\* capture was written on the way.
RECURSIVE DownloadDailyEntriesFrom(_, _)
DownloadDailyEntriesFrom(i, res) ==
  IF i > Len(REGION_SOURCES)
  THEN [raised |-> FALSE, entries |-> <<>>, persisted |-> FALSE]
  ELSE IF REGION_SOURCES[i].city_code = "" THEN DownloadDailyEntriesFrom(i + 1, res)
  ELSE IF res[i].raised
  THEN [raised |-> TRUE, entries |-> <<>>, persisted |-> FALSE]
  ELSE LET rest == DownloadDailyEntriesFrom(i + 1, res)
       IN [raised |-> rest.raised,
           entries |-> IF rest.raised THEN <<>>
                       ELSE IF res[i].entry = None THEN rest.entries
                       ELSE <<res[i].entry[1]>> \o rest.entries,
           persisted |-> res[i].persisted \/ rest.persisted]

DownloadDailyEntries(res) == DownloadDailyEntriesFrom(1, res)

\* ------------------------------------------------------- static baseline
DEFAULT_STATIC_COUNT == 25

\* value_parsing.py _find_numeric over the loaded static file, whose count
\* field is a token: a number of either sign is taken as it is, text that
\* float() rejects gives None
FindNumeric(payload) == IF payload.numeric THEN Some(payload.val) ELSE None

\* static_data.py _build_payload_from_static (the fields the tiers use)
BuildPayloadFromStatic(source, files) ==
  LET rawfile == files[source.pollen_station]
      count == IF rawfile # None THEN FindNumeric(rawfile[1]) ELSE None
  IN [citycode |-> IF source.city_code # "" THEN source.city_code
                   ELSE source.pollen_station,
      region_id |-> source.id,
      pollen |-> None,
      pollen_count |-> IF count = None THEN Some(DEFAULT_STATIC_COUNT) ELSE count,
      source_date |-> None,
      source |-> "static"]

\* static_data.py _build_static_entries stopping after the first source
BuildStaticEntriesFirstOnly(files) ==
  << BuildPayloadFromStatic(REGION_SOURCES[1], files) >>
\* static_data.py _build_static_entries: one payload per registry source
BuildStaticEntries(files) ==
  [i \in 1..Len(REGION_SOURCES) |-> BuildPayloadFromStatic(REGION_SOURCES[i], files)]

\* ------------------------------------------------------- aggregate files
\* a file pollen_<date>.json: absent, unreadable (I/O error or invalid JSON),
\* or holding a JSON value: a list of records, an object, a list of scalars,
\* or null
AbsentFile == [exists |-> FALSE, readable |-> FALSE, shape |-> "list", items |-> <<>>]
ListFile(entries) ==
  [exists |-> TRUE, readable |-> TRUE, shape |-> "list", items |-> entries]
DamagedFile(shape) ==
  [exists |-> TRUE, readable |-> shape # "unreadable",
   shape |-> IF shape = "unreadable" THEN "list" ELSE shape, items |-> <<>>]
DamageShapes == {"unreadable", "object", "scalars", "null", "list"}

\* json.load of a file inside try/except: None when the read or the parse
\* fails (ok = FALSE is a transient read failure) or when the file holds null
JsonValue(file) == [shape |-> file.shape, items |-> file.items]
ReadJson(file, ok) ==
  IF file.exists /\ file.readable /\ ok /\ file.shape # "null"
  THEN Some(JsonValue(file)) ELSE None

\* Python truth value of an Optional JSON value (objects and scalar lists of
\* the model are non-empty)
Truthy(opt) ==
  /\ opt # None
  /\ (opt[1].shape = "list" => opt[1].items # <<>>)

\* entry.get("citycode") works on records only
IsRecordList(json) == json.shape = "list"

\* ------------------------------------------------------------ alias map
Keys(m) == DOMAIN m
EmptyMap == [k \in {} |-> 0]
Put(m, k, v) == [x \in (DOMAIN m) \cup {k} |-> IF x = k THEN v ELSE m[x]]

\* {str(entry["citycode"]): entry for entry in cached_entries if citycode}
RECURSIVE CityMap(_)
CityMap(items) ==
  IF items = <<>> THEN EmptyMap
  ELSE LET e == items[Len(items)]
           init == CityMap(SubSeq(items, 1, Len(items) - 1))
       IN IF e.citycode = "" THEN init ELSE Put(init, e.citycode, e)

\* as AliasOrder, with the region id left out
AliasOrderNoId(s) == <<s.pollen_station, s.forecast_city, s.amedas_station>>

\* the aliases a matched source is expanded to, in the order of the loop
AliasOrder(s) == <<s.pollen_station, s.forecast_city, s.amedas_station, s.id>>

RECURSIVE AddAliases(_, _, _, _)
AddAliases(m, aliases, i, entry) ==
  IF i > Len(aliases) THEN m
  ELSE AddAliases(IF aliases[i] # "" /\ aliases[i] \notin DOMAIN m
                  THEN Put(m, aliases[i], entry) ELSE m,
                  aliases, i + 1, entry)

\* the alias loop of _load_daily_pollen_map over REGION_SOURCES
RECURSIVE ExpandAliases(_, _)
ExpandAliases(m, i) ==
  IF i > Len(REGION_SOURCES) THEN m
  ELSE LET s == REGION_SOURCES[i]
       IN IF s.city_code # "" /\ s.city_code \in DOMAIN m
          THEN ExpandAliases(AddAliases(m, AliasOrder(s), 1, m[s.city_code]), i + 1)
          ELSE ExpandAliases(m, i + 1)

BuildPollenMap(items) == ExpandAliases(CityMap(items), 1)

\* ------------------------------------------------------------- pruning
\* as PruneKeep, keeping the first max_entries of the sorted keys instead of
\* the last
PruneKeepOldest(keys) ==
  IF Cardinality(keys) <= max_entries THEN keys
  ELSE {k \in keys : Cardinality({j \in keys : j < k}) < max_entries}

\* _prune_memory_cache: the keys that stay, i.e. all but the
\* len - max_entries first of the keys sorted by date
PruneKeep(keys) ==
  IF Cardinality(keys) <= max_entries THEN keys
  ELSE {k \in keys : Cardinality({j \in keys : j > k}) < max_entries}

Restrict(f, S) == [k \in S |-> f[k]]

\* --------------------------------------------------------- stale fallback
STALE_WINDOW_DAYS == 365
Abs(x) == IF x < 0 THEN 0 - x ELSE x

\* the comparator of _load_recent_cache without its tie clause
BetterNoTie(delta, day, best) ==
  \/ best = None
  \/ delta < best[1].delta
\* the comparator of _load_recent_cache: does candidate (delta, day) replace
\* best_match
Better(delta, day, best) ==
  \/ best = None
  \/ delta < best[1].delta
  \/ (delta = best[1].delta /\ day > best[1].day)

\* _load_recent_cache: the files are visited in the order `order`; `bad` are
\* the files whose read fails transiently
RECURSIVE LoadRecentCacheFrom(_, _, _, _, _, _)
LoadRecentCacheFrom(i, order, target_key, files, bad, best) ==
  IF i > Len(order) THEN best
  ELSE
    LET key == order[i]
        payload == ReadJson(files[key], key \notin bad)
        delta == Abs(key - target_key)
        skip == LoadRecentCacheFrom(i + 1, order, target_key, files, bad, best)
    IN IF key = target_key \/ ~files[key].exists THEN skip
       ELSE IF ~Truthy(payload) THEN skip
       ELSE IF delta > STALE_WINDOW_DAYS THEN skip
       ELSE IF Better(delta, key, best)
            THEN LoadRecentCacheFrom(i + 1, order, target_key, files, bad,
                   Some([delta |-> delta, day |-> key, payload |-> payload[1]]))
            ELSE skip

\* CACHE_DIR.glob("pollen_*.json"), here in ascending date order
GlobOrder == [i \in 1..(MaxDate + 1) |-> i - 1]

\* _load_recent_cache naming the requested date as the origin of what it found
LoadRecentCacheOwnKey(target_key, files, bad) ==
  LET found == LoadRecentCacheFrom(1, GlobOrder, target_key, files, bad, None)
  IN IF found = None THEN None
     ELSE Some([found[1] EXCEPT !.day = target_key])
LoadRecentCache(target_key, files, bad) ==
  LoadRecentCacheFrom(1, GlobOrder, target_key, files, bad, None)

\* ------------------------------------------------- _load_daily_pollen_map
WriteOutcomes == {"ok", "fail", "partial"}

\* provenance strings: f"static_{date_key}", or a date key
Provenance(static, key) == [static |-> static, key |-> key]

\* json.dump of the entries into cache_path opened for appending
WriteJsonAppend(file, entries, wr) ==
  IF wr = "ok" THEN ListFile(file.items \o entries)
  ELSE IF wr = "fail" THEN file
  ELSE DamagedFile("unreadable")
\* json.dump of the entries into cache_path inside try/except: done, failed
\* before the file was opened, or failed after it was truncated
WriteJson(file, entries, wr) ==
  IF wr = "ok" THEN ListFile(entries)
  ELSE IF wr = "fail" THEN file
  ELSE DamagedFile("unreadable")

\* the condition of the first read of cache_path
FirstReadAttempted(file, force, disable) == file.exists /\ ~force /\ ~disable
\* line 211 entered whatever the first read gave
EnterLiveAlways(first, force) == TRUE
\* line 211: the live and static tiers are entered
EnterLive(first, force) == first = None \/ force

\* the handler from line 211 on.  first: cached_entries after the first read;
\* dl: what _download_daily_entries gave (used when the fetch ran); rd2: the
\* second read of cache_path succeeds; wr: outcome of the write; bad: files
\* whose read fails in the stale scan.  Gives the new tables and files, the
\* returned map, the tier that produced it and the file reads, the live fetch
\* and the file write the run went through.
LoadDailyTail(date_key, force, mem, src, files, rawdirs, disable, sfiles, first, dl, rd2, wr, bad) ==
  LET enter == EnterLive(first, force)
      fetched == enter /\ ~disable
      raw0 == IF fetched /\ dl.persisted THEN rawdirs \cup {date_key} ELSE rawdirs
      downloaded0 == IF fetched /\ ~dl.raised THEN dl.entries ELSE <<>>
      downloaded == IF downloaded0 = <<>> THEN BuildStaticEntries(sfiles)
                    ELSE downloaded0
      static_used == downloaded0 = <<>> /\ downloaded # <<>>
      wrote == enter /\ downloaded # <<>>
      files1 == IF wrote
                THEN [files EXCEPT ![date_key] = WriteJson(@, downloaded, wr)]
                ELSE files
      raw1 == IF wrote /\ wr = "ok" THEN raw0 \ {date_key} ELSE raw0
      cached1 == IF wrote THEN Some([shape |-> "list", items |-> downloaded])
                 ELSE IF enter /\ files[date_key].exists /\ first = None
                      THEN ReadJson(files[date_key], rd2)
                 ELSE first
      key1 == Provenance(wrote /\ static_used, date_key)
      fallback == IF Truthy(cached1) THEN None
                  ELSE LoadRecentCache(date_key, files1, bad)
      cached2 == IF fallback # None THEN Some(fallback[1].payload) ELSE cached1
      key2 == IF fallback # None THEN Provenance(FALSE, fallback[1].day) ELSE key1
      tier == IF fallback # None THEN "stale"
              ELSE IF ~Truthy(cached1) THEN "empty"
              ELSE IF wrote THEN (IF static_used THEN "static" ELSE "live")
              ELSE IF enter THEN "disk_retry"
              ELSE "disk"
      pollen_map == BuildPollenMap(cached2[1].items)
      mem1 == Put(mem, date_key, pollen_map)
      src1 == Put(src, date_key, key2)
      keep == PruneKeep(DOMAIN mem1)
      evicted == (DOMAIN mem1) \ keep
      io == [read |-> \/ FirstReadAttempted(files[date_key], force, disable)
                      \/ (enter /\ ~wrote /\ files[date_key].exists
                            /\ first = None)
                      \/ ~Truthy(cached1),
             loaded |-> first # None, fetched |-> fetched, wrote |-> wrote,
             saved |-> wrote /\ wr = "ok"]
  IN IF fetched /\ dl.raised
     THEN [raised |-> TRUE, tier |-> "live", result |-> EmptyMap,
           mem |-> mem, src |-> src, files |-> files, rawdirs |-> raw0,
           io |-> [io EXCEPT !.wrote = FALSE, !.saved = FALSE]]
     ELSE IF ~Truthy(cached2)
     THEN [raised |-> FALSE, tier |-> tier, result |-> EmptyMap,
           mem |-> Put(mem, date_key, EmptyMap), src |-> Put(src, date_key, key2),
           files |-> files1, rawdirs |-> raw1, io |-> io]
     ELSE IF ~IsRecordList(cached2[1])
     THEN [raised |-> TRUE, tier |-> tier, result |-> EmptyMap,
           mem |-> mem, src |-> src, files |-> files1, rawdirs |-> raw1,
           io |-> io]
     ELSE [raised |-> FALSE, tier |-> tier, result |-> pollen_map,
           mem |-> Restrict(mem1, keep),
           src |-> Restrict(src1, (DOMAIN src1) \ evicted),
           files |-> files1, rawdirs |-> raw1, io |-> io]

\* ------------------------------------------------------------------ state
StaticValues == {0 - 5, 40}
FirstStation == REGION_SOURCES[1].pollen_station
\* the static bundle: no file for any station, or a file for the first one
StaticConfigs ==
  {[st \in Stations |-> None]}
    \cup {[st \in Stations |-> IF st = FirstStation THEN Some(Num(v)) ELSE None] :
            v \in StaticValues}

Idle == [st |-> "idle", date |-> 0, force |-> FALSE]
NoIo == [read |-> FALSE, loaded |-> FALSE, fetched |-> FALSE, wrote |-> FALSE,
         saved |-> FALSE]
NoCall == [op |-> "none", date |-> 0, force |-> FALSE, raised |-> FALSE,
           tier |-> "none", result |-> EmptyMap, io |-> NoIo]

\* the sample file: absent, unusable (unreadable, invalid JSON or not a
\* list), or a list of records
AbsentSample == [exists |-> FALSE, list |-> FALSE, items |-> <<>>]
BadSample == [exists |-> TRUE, list |-> FALSE, items |-> <<>>]
ListSample(items) == [exists |-> TRUE, list |-> TRUE, items |-> items]
\* a sample record with flat fields only
SampleRecord(id) ==
  [region_id |-> id, pollen_count |-> 33, raw |-> None, weatherData |-> None]
\* the weather block a sample record may bring along
OwnWeather ==
  [temperature |-> 1, source |-> "sample", observed_at |-> 0,
   forecast_date |-> 0]
\* a sample record with a "raw" object and a "weatherData" object
NestedSampleRecord(id) ==
  [region_id |-> id, pollen_count |-> 33,
   raw |-> <<[requested_date |-> None]>>, weatherData |-> <<OwnWeather>>]
SampleConfigs ==
  {AbsentSample, BadSample, ListSample(<< SampleRecord(REGION_SOURCES[1].id) >>)}

ForecastCities == {REGION_SOURCES[i].forecast_city : i \in SourceIdx}
NoWeather == [c \in ForecastCities |-> None]
NoProbe == [applied |-> FALSE, arg |-> <<>>, result |-> <<>>]
NoReply == [called |-> FALSE, regions |-> <<>>, region_filter |-> None,
            target |-> None, raised |-> FALSE, records |-> <<>>]

\* RealtimeDataClient.__init__ in a fresh cache directory
InitClient ==
  /\ daily_cache = EmptyMap
  /\ cache_source_keys = EmptyMap
  /\ disk = [d \in Dates |-> AbsentFile]
  /\ raw = {}
  /\ disable_live_fetch \in BOOLEAN
  /\ pc = [t \in Tasks |-> Idle]
  /\ last = NoCall
  /\ inserted = {}
  /\ nops = 0
  /\ nfaults = 0
  /\ sample_cache = None
  /\ weather_cache = NoWeather
  /\ reply = NoReply
  /\ probe = NoProbe
  /\ clock = 0

\* a deployment without a sample file
Init ==
  /\ InitClient
  /\ static_files \in StaticConfigs
  /\ sample_file = AbsentSample

AllIdle == \A t \in Tasks : pc[t].st = "idle"

\* every list of per-source results of one _download_daily_entries(date_key)
RECURSIVE CityResultSeqs(_, _)
CityResultSeqs(n, date_key) ==
  IF n = 0 THEN {<<>>}
  ELSE {Append(rs, r) : rs \in CityResultSeqs(n - 1, date_key),
                        r \in CityResults(REGION_SOURCES[n], date_key)}

\* what _download_daily_entries(date_key) can return, over all outcomes of
\* its requests (tabulated per date)
DailyResults ==
  [d \in Dates |-> {DownloadDailyEntries(rs) :
                      rs \in CityResultSeqs(Len(REGION_SOURCES), d)}]
NoDownload == [raised |-> FALSE, entries |-> <<>>, persisted |-> FALSE]

\* a read of a sound file, or a write, may fail while the run has faults left
CanFail == nfaults < MaxFaults
ReadChoices(file) ==
  IF file.exists /\ file.readable /\ CanFail THEN BOOLEAN ELSE {TRUE}
WriteChoices(writes) == IF writes /\ CanFail THEN WriteOutcomes ELSE {"ok"}
BadChoices(files, date_key) ==
  {{}} \cup {{d} : d \in {x \in Dates : x # date_key /\ files[x].exists
                                          /\ files[x].readable /\ CanFail}}
\* the failures a run of the handler went through
Faults(rd1, rd2, wr, bad) ==
  (IF rd1 THEN 0 ELSE 1) + (IF rd2 THEN 0 ELSE 1)
    + (IF wr = "ok" THEN 0 ELSE 1) + Cardinality(bad)

Returned(op, date_key, force, out) ==
  [op |-> op, date |-> date_key, force |-> force, raised |-> out.raised,
   tier |-> out.tier, result |-> out.result, io |-> out.io]

\* the effect of a run of the handler past the memory check on the tables
\* and files
Complete(date_key, out) ==
  /\ daily_cache' = out.mem
  /\ cache_source_keys' = out.src
  /\ disk' = out.files
  /\ raw' = out.rawdirs
  /\ inserted' = IF ~out.raised /\ out.result # EmptyMap
                 THEN inserted \cup {date_key} ELSE inserted

\* line 189-190 testing the stored map for truth instead of the key
MemoryHitNonEmpty(date_key, force) ==
  ~force /\ date_key \in DOMAIN daily_cache /\ daily_cache[date_key] # EmptyMap
\* line 189-190: the memory hit
MemoryHit(date_key, force) == ~force /\ date_key \in DOMAIN daily_cache

\* _load_daily_pollen_map run to its return, with the results of
\* _download_daily_entries drawn from dls
LoadDailyPollenMap(op, date_key, force, dls) ==
  IF MemoryHit(date_key, force)
  THEN /\ last' = [op |-> op, date |-> date_key, force |-> force,
                   raised |-> FALSE, tier |-> "memory",
                   result |-> daily_cache[date_key], io |-> NoIo]
       /\ UNCHANGED <<daily_cache, cache_source_keys, disk, raw, inserted, nfaults>>
  ELSE \E rd1 \in (IF FirstReadAttempted(disk[date_key], force, disable_live_fetch)
                   THEN ReadChoices(disk[date_key]) ELSE {TRUE}) :
         LET first == IF FirstReadAttempted(disk[date_key], force,
                                            disable_live_fetch)
                      THEN ReadJson(disk[date_key], rd1) ELSE None
             enter == EnterLive(first, force)
         IN \E dl \in (IF enter /\ ~disable_live_fetch THEN dls ELSE {NoDownload}),
               wr \in WriteChoices(enter),
               bad \in (IF Truthy(first) \/ enter THEN {{}}
                        ELSE BadChoices(disk, date_key)) :
              \E out \in {LoadDailyTail(date_key, force, daily_cache,
                           cache_source_keys, disk, raw, disable_live_fetch,
                           static_files, first, dl, TRUE, wr, bad)} :
                 /\ Faults(rd1, TRUE, wr, bad) <= MaxFaults - nfaults
                 /\ nfaults' = nfaults + Faults(rd1, TRUE, wr, bad)
                 /\ Complete(date_key, out)
                 /\ last' = Returned(op, date_key, force, out)

\* a call of _load_daily_pollen_map with no other coroutine active
Resolve(date_key, force) ==
  /\ AllIdle
  /\ nops < MaxOps
  /\ nops' = nops + 1
  /\ UNCHANGED <<disable_live_fetch, static_files, pc>>
  /\ UNCHANGED <<sample_file, sample_cache, weather_cache, reply, probe, clock>>
  /\ LoadDailyPollenMap("resolve", date_key, force, DailyResults[date_key])

\* a cache file is damaged from outside the process
Damage(date_key, shape) ==
  /\ AllIdle
  /\ nfaults < MaxFaults
  /\ disk[date_key].exists
  /\ disk' = [disk EXCEPT ![date_key] = DamagedFile(shape)]
  /\ nfaults' = nfaults + 1
  /\ last' = NoCall
  /\ UNCHANGED <<daily_cache, cache_source_keys, raw, disable_live_fetch,
                 static_files, pc, inserted, nops>>
  /\ UNCHANGED <<sample_file, sample_cache, weather_cache, reply, probe, clock>>

\* the process is restarted, possibly with POLLEN_DISABLE_LIVE_FETCH changed:
\* the tables start empty, the cache directory stays
Restart(disable) ==
  /\ AllIdle
  /\ nops > 0
  /\ daily_cache # EmptyMap \/ disable # disable_live_fetch
  /\ daily_cache' = EmptyMap
  /\ cache_source_keys' = EmptyMap
  /\ disable_live_fetch' = disable
  /\ last' = NoCall
  /\ inserted' = {}
  /\ sample_cache' = None
  /\ weather_cache' = NoWeather
  /\ reply' = NoReply
  /\ UNCHANGED <<disk, raw, static_files, pc, nops, nfaults, sample_file,
                 probe, clock>>

Next ==
  \/ \E d \in Dates, f \in BOOLEAN : Resolve(d, f)
  \/ \E d \in Dates, sh \in DamageShapes : Damage(d, sh)
  \/ \E dis \in BOOLEAN : Restart(dis)

Spec == Init /\ [][Next]_vars

\* ------------------------------------------------ many dates, plain upstream
\* the upstream is either up for every city (a reading of 12 for the
\* requested day) or down for every request
UniformOutcome(source, up) ==
  IF up THEN [kind |-> "body", rows |-> << Row(source.city_code, Num(12)) >>]
  ELSE [kind |-> "timeout", rows |-> <<>>]
UniformResults ==
  [d \in Dates |->
     {DownloadDailyEntries(
        [i \in SourceIdx |->
           DownloadCityEntry(REGION_SOURCES[i], BuildTargetDates(d),
             [j \in 1..(LookbackDays + 1) |->
                UniformOutcome(REGION_SOURCES[i], up)])]) :
        up \in BOOLEAN}]

\* enough calls to overfill the in-memory table and ask once more
MemOps == max_entries + 2

ResolveMany(date_key, force) ==
  /\ AllIdle
  /\ nops < MemOps
  /\ nops' = nops + 1
  /\ UNCHANGED <<disable_live_fetch, static_files, pc>>
  /\ UNCHANGED <<sample_file, sample_cache, weather_cache, reply, probe, clock>>
  /\ LoadDailyPollenMap("resolve", date_key, force, UniformResults[date_key])

NextMem == \E d \in Dates, f \in BOOLEAN : ResolveMany(d, f)

SpecMem == Init /\ [][NextMem]_vars

\* ------------------------------------------- a cache directory with [] files
\* the client starts on a cache directory in which some aggregate files hold
\* an empty JSON list; no I/O failure happens in the run
InitEmpty ==
  /\ daily_cache = EmptyMap
  /\ cache_source_keys = EmptyMap
  /\ disk \in [Dates -> {AbsentFile, ListFile(<<>>)}]
  /\ raw = {}
  /\ disable_live_fetch \in BOOLEAN
  /\ static_files = [st \in Stations |-> None]
  /\ pc = [t \in Tasks |-> Idle]
  /\ last = NoCall
  /\ inserted = {}
  /\ nops = 0
  /\ nfaults = MaxFaults
  /\ sample_file = AbsentSample
  /\ sample_cache = None
  /\ weather_cache = NoWeather
  /\ reply = NoReply
  /\ probe = NoProbe
  /\ clock = 0

SpecEmpty == InitEmpty /\ [][NextMem]_vars

\* ------------------------------------------------------ concurrent calls
\* _load_daily_pollen_map up to its first suspension point: the memory check
\* and the first read run without yielding; the call returns at once when it
\* needs no live fetch, and is suspended in _download_daily_entries otherwise
Start(t, date_key, force) ==
  /\ pc[t].st = "idle"
  /\ nops < MaxOps
  /\ nops' = nops + 1
  /\ UNCHANGED <<disable_live_fetch, static_files>>
  /\ UNCHANGED <<sample_file, sample_cache, weather_cache, reply, probe, clock>>
  /\ IF MemoryHit(date_key, force)
     THEN /\ last' = [op |-> "resolve", date |-> date_key, force |-> force,
                      raised |-> FALSE, tier |-> "memory",
                      result |-> daily_cache[date_key], io |-> NoIo]
          /\ UNCHANGED <<daily_cache, cache_source_keys, disk, raw, inserted,
                         nfaults, pc>>
     ELSE \E rd1 \in (IF FirstReadAttempted(disk[date_key], force, disable_live_fetch)
                      THEN ReadChoices(disk[date_key]) ELSE {TRUE}) :
            LET first == IF FirstReadAttempted(disk[date_key], force,
                                               disable_live_fetch)
                         THEN ReadJson(disk[date_key], rd1) ELSE None
                enter == EnterLive(first, force)
            IN IF enter /\ ~disable_live_fetch
               THEN /\ pc' = [pc EXCEPT ![t] = [st |-> "fetching",
                                                date |-> date_key,
                                                force |-> force]]
                    /\ nfaults' = nfaults + Faults(rd1, TRUE, "ok", {})
                    /\ UNCHANGED <<daily_cache, cache_source_keys, disk, raw,
                                   inserted, last>>
               ELSE \E wr \in WriteChoices(enter),
                       bad \in (IF Truthy(first) \/ enter THEN {{}}
                                ELSE BadChoices(disk, date_key)) :
                      LET out == LoadDailyTail(date_key, force, daily_cache,
                                   cache_source_keys, disk, raw,
                                   disable_live_fetch, static_files, first,
                                   NoDownload, TRUE, wr, bad)
                      IN /\ Faults(rd1, TRUE, wr, bad) <= MaxFaults - nfaults
                         /\ nfaults' = nfaults + Faults(rd1, TRUE, wr, bad)
                         /\ Complete(date_key, out)
                         /\ last' = Returned("resolve", date_key, force, out)
                         /\ UNCHANGED pc

\* the live fetch of a suspended call ends and the call runs to its return
\* on the tables and files as they are now
Finish(t) ==
  /\ pc[t].st = "fetching"
  /\ UNCHANGED <<disable_live_fetch, static_files, nops>>
  /\ UNCHANGED <<sample_file, sample_cache, weather_cache, reply, probe, clock>>
  /\ \E dl \in UniformResults[pc[t].date], wr \in WriteChoices(TRUE) :
       LET out == LoadDailyTail(pc[t].date, pc[t].force, daily_cache,
                    cache_source_keys, disk, raw, disable_live_fetch,
                    static_files, None, dl, TRUE, wr, {})
       IN /\ nfaults' = nfaults + Faults(TRUE, TRUE, wr, {})
          /\ Complete(pc[t].date, out)
          /\ last' = Returned("resolve", pc[t].date, pc[t].force, out)
          /\ pc' = [pc EXCEPT ![t] = Idle]

NextConc ==
  \/ \E t \in Tasks, d \in Dates, f \in BOOLEAN : Start(t, d, f)
  \/ \E t \in Tasks : Finish(t)

SpecConc == Init /\ [][NextConc]_vars

\* ------------------------------------------------------------ fetch_regions
\* client.py _resolve_sources: the registry sources of the requested regions,
\* in request order
RegistryGet(id) ==
  IF \E i \in SourceIdx : REGION_SOURCES[i].id = id
  THEN Some(REGION_SOURCES[CHOOSE i \in SourceIdx : REGION_SOURCES[i].id = id])
  ELSE None
RECURSIVE ResolveSources(_, _, _)
ResolveSources(regions, region_filter, i) ==
  IF i > Len(regions) THEN <<>>
  ELSE LET rest == ResolveSources(regions, region_filter, i + 1)
       IN IF region_filter # None /\ regions[i] # region_filter[1] THEN rest
          ELSE IF RegistryGet(regions[i]) = None THEN rest
          ELSE <<RegistryGet(regions[i])[1]>> \o rest

\* static_data.py _load_sample_payloads
LoadSamplePayloads(cache, file) ==
  IF cache # None THEN [payloads |-> cache, cache |-> cache]
  ELSE IF ~file.exists \/ ~file.list THEN [payloads |-> None, cache |-> None]
  ELSE [payloads |-> Some(file.items), cache |-> Some(file.items)]

\* sample_map.get(source.id): the last sample record of the region
RECURSIVE SampleGet(_, _, _, _)
SampleGet(payloads, id, i, found) ==
  IF payloads = None THEN None
  ELSE IF i > Len(payloads[1]) THEN found
  ELSE SampleGet(payloads, id, i + 1,
         IF payloads[1][i].region_id = id THEN Some(payloads[1][i]) ELSE found)

\* the day "now" falls on; a request is made in the morning or the afternoon
Today == MaxDate - 1
\* (now - target_date).days with instants in quarter days: timedelta.days is
\* the floor of the difference
Days(now4, target4) == (now4 - target4) \div 4
\* client.py 345-348: the forecast horizon; a target date is at noon
OutsideHorizon(target, pm) ==
  /\ target # None
  /\ Abs(Days(4 * Today + (IF pm THEN 3 ELSE 1), 4 * target[1] + 2)) > 1

\* how a request to the weather API ends: a forecast, an object without
\* forecasts, no usable response (a non-200 status, a connection error or a
\* body that is not JSON), or a JSON body that is not an object
WeatherOutcomes == {"ok", "no_forecasts", "unavailable", "not_object"}
\* payload["forecasts"] of an answer with forecasts: today and the two days
\* after it, in this order
Forecasts == <<Today, Today + 1, Today + 2>>
\* client.py 454-465: the forecast whose date is the target's (today's
\* without a target), else the first one
RECURSIVE SelectedForecast(_, _, _)
SelectedForecast(forecasts, target, i) ==
  IF i > Len(forecasts) THEN forecasts[1]
  ELSE IF forecasts[i] = (IF target # None THEN target[1] ELSE Today)
  THEN forecasts[i]
  ELSE SelectedForecast(forecasts, target, i + 1)
\* the metrics parsed from a forecast answered at `now`; forecast_date: the
\* day of the forecast the values were read from
Metrics(now, target) ==
  [temperature |-> 18, source |-> "tsukumijima_forecast", observed_at |-> now,
   forecast_date |-> SelectedForecast(Forecasts, target, 1)]

\* the TTL of a weather capture, scaled down from 1800 seconds
WEATHER_CACHE_TTL_SECONDS == 2
\* the clock of the model stops after two TTLs and a tick
MaxClock == 2 * WEATHER_CACHE_TTL_SECONDS + 1

\* client.py 400-402 with <= in place of <
CacheFreshInclusive(now, captured) ==
  now - captured <= WEATHER_CACHE_TTL_SECONDS
\* client.py 400-402: (now - cached[0]).total_seconds() < TTL
CacheFresh(now, captured) ==
  now - captured < WEATHER_CACHE_TTL_SECONDS

\* client.py _get_weather_for_city; queried: session.get was called
GetWeatherForCity(cache, city, target, now, outcome) ==
  LET cached == cache[city]
      fallback == IF cached # None THEN Some(cached[1].entry) ELSE None
  IN IF cached # None /\ CacheFresh(now, cached[1].at)
     THEN [raised |-> FALSE, entry |-> Some(cached[1].entry), cache |-> cache,
           queried |-> FALSE]
     ELSE IF outcome = "unavailable"
     THEN [raised |-> FALSE, entry |-> fallback, cache |-> cache,
           queried |-> TRUE]
     ELSE IF outcome = "not_object"
     THEN [raised |-> TRUE, entry |-> None, cache |-> cache, queried |-> TRUE]
     ELSE IF outcome = "no_forecasts"
     THEN [raised |-> FALSE, entry |-> fallback, cache |-> cache,
           queried |-> TRUE]
     ELSE [raised |-> FALSE, entry |-> Some(Metrics(now, target)),
           cache |-> [cache EXCEPT ![city] =
                        Some([at |-> now, entry |-> Metrics(now, target)])],
           queried |-> TRUE]

\* code_to_sources: the forecast cities of the sources, first come first
RECURSIVE ForecastCodes(_, _, _)
ForecastCodes(sources, i, acc) ==
  IF i > Len(sources) THEN acc
  ELSE ForecastCodes(sources, i + 1,
         IF \E j \in 1..Len(acc) : acc[j] = sources[i].forecast_city THEN acc
         ELSE Append(acc, sources[i].forecast_city))

\* client.py 379-386: the keys a weather entry is filed under
RECURSIVE AddWeather(_, _, _, _, _)
AddWeather(results, sources, i, city, entry) ==
  IF i > Len(sources) THEN results
  ELSE AddWeather(
         IF sources[i].forecast_city # city THEN results
         ELSE Put(Put(Put(results, sources[i].forecast_city, entry),
                      sources[i].city_code, entry), sources[i].id, entry),
         sources, i + 1, city, entry)

RECURSIVE LoadWeatherFrom(_, _, _, _, _, _, _, _)
LoadWeatherFrom(i, codes, sources, target, cache, results, now, wx) ==
  IF i > Len(codes)
  THEN [raised |-> FALSE, results |-> results, cache |-> cache]
  ELSE LET got == GetWeatherForCity(cache, codes[i], target, now,
                                  wx[codes[i]])
       IN IF got.raised
          THEN [raised |-> TRUE, results |-> EmptyMap, cache |-> got.cache]
          ELSE LoadWeatherFrom(i + 1, codes, sources, target, got.cache,
                 IF got.entry = None THEN results
                 ELSE AddWeather(results, sources, 1, codes[i], got.entry[1]),
                 now, wx)

\* client.py _load_weather_data
LoadWeatherData(sources, target, pm, cache, now, wx) ==
  IF sources = <<>> \/ OutsideHorizon(target, pm)
  THEN [raised |-> FALSE, results |-> EmptyMap, cache |-> cache]
  ELSE LoadWeatherFrom(1, ForecastCodes(sources, 1, <<>>), sources, target,
                       cache, EmptyMap, now, wx)

\* the first of the keys that the map holds, None when it holds none
RECURSIVE FirstKey(_, _, _)
FirstKey(m, keys, i) ==
  IF i > Len(keys) THEN None
  ELSE IF keys[i] \in DOMAIN m THEN Some(m[keys[i]])
  ELSE FirstKey(m, keys, i + 1)

\* the values of a record's timestamp: the requested date, the instant of
\* the call, the date column of the upstream row a reading came from, or the
\* text a sample snapshot carries
Stamp(of, day) == [of |-> of, day |-> day]
\* client.py 990-992: the entry's date, overridden by the date of the raw
\* row, else now; a row with a date column carries the day it was asked for
ApiTimestamp(api_entry, dated) ==
  IF dated /\ api_entry.source_date # None
  THEN Stamp("row", api_entry.source_date[1])
  ELSE Stamp("now", Today)
\* client.py _build_payload_from_api giving up on every entry
BuildPayloadFromApiNever(source, api_entry, dated) == None
\* client.py _build_payload_from_api
BuildPayloadFromApi(source, api_entry, dated) ==
  IF api_entry.pollen = None THEN None
  ELSE Some([region_id |-> source.id, origin |-> "api",
             pollen_count |-> api_entry.pollen[1], weather |-> None,
             timestamp |-> ApiTimestamp(api_entry, dated),
             requested_date |-> None, weatherData |-> None])

\* fetch_regions 96-165: the record of one source
BuildRecord(source, api_map, payloads, weather_lookup, files, target, dated) ==
  LET api_entry == FirstKey(api_map,
                     << source.city_code, source.forecast_city,
                        source.pollen_station, source.amedas_station,
                        source.id >>, 1)
      from_api == IF api_entry # None
                  THEN BuildPayloadFromApi(source, api_entry[1], dated)
                  ELSE None
      sample_entry == SampleGet(payloads, source.id, 1, None)
      payload ==
        IF from_api # None THEN from_api[1]
        ELSE IF sample_entry # None
        THEN [region_id |-> sample_entry[1].region_id, origin |-> "sample",
              pollen_count |-> sample_entry[1].pollen_count, weather |-> None,
              timestamp |-> Stamp("sample", 0),
              requested_date |-> IF sample_entry[1].raw = None THEN None
                                 ELSE sample_entry[1].raw[1].requested_date,
              weatherData |-> sample_entry[1].weatherData]
        ELSE [region_id |-> source.id, origin |-> "static",
              pollen_count |->
                BuildPayloadFromStatic(source, files).pollen_count[1],
              weather |-> None,
              timestamp |-> IF target # None THEN Stamp("requested", target[1])
                            ELSE Stamp("now", Today),
              requested_date |-> None, weatherData |-> None]
      weather_entry == FirstKey(weather_lookup,
                         << source.forecast_city, source.city_code,
                            source.id >>, 1)
  IN [payload EXCEPT !.weather = weather_entry,
                     !.timestamp = IF target # None
                                   THEN Stamp("requested", target[1]) ELSE @,
                     !.requested_date = IF target # None /\ @ = None
                                        THEN Some(target[1]) ELSE @,
                     !.weatherData = IF weather_entry # None
                                     THEN weather_entry ELSE @]

\* fetch_regions 114-164 on the objects of a sample record: dict(sample_entry)
\* copies the top level only, so the setdefault of 120-123 and the update of
\* 140-148 write into the cached record's own "raw" and "weatherData"
TouchSample(sample_entry, target, weather_entry) ==
  [sample_entry EXCEPT
     !.raw = IF @ = None THEN None
             ELSE Some([requested_date |->
                          IF target # None /\ @[1].requested_date = None
                          THEN Some(target[1]) ELSE @[1].requested_date]),
     !.weatherData = IF @ # None /\ weather_entry # None
                     THEN weather_entry ELSE @]

\* sample_map.get(source.id) as a position in the list, 0 when absent
RECURSIVE SampleIndex(_, _, _, _)
SampleIndex(items, id, i, found) ==
  IF i > Len(items) THEN found
  ELSE SampleIndex(items, id, i + 1,
         IF items[i].region_id = id THEN i ELSE found)

\* fetch_regions 96-165: the cached sample list after the loop over the
\* sources
RECURSIVE TouchSamples(_, _, _, _, _, _, _)
TouchSamples(i, sources, api_map, payloads, weather_lookup, target, dated) ==
  IF payloads = None \/ i > Len(sources) THEN payloads
  ELSE LET source == sources[i]
           api_entry == FirstKey(api_map,
                          << source.city_code, source.forecast_city,
                             source.pollen_station, source.amedas_station,
                             source.id >>, 1)
           from_api == IF api_entry # None
                       THEN BuildPayloadFromApi(source, api_entry[1], dated)
                       ELSE None
           k == SampleIndex(payloads[1], source.id, 1, 0)
           weather_entry == FirstKey(weather_lookup,
                              << source.forecast_city, source.city_code,
                                 source.id >>, 1)
       IN TouchSamples(i + 1, sources, api_map,
            IF from_api # None \/ k = 0 THEN payloads
            ELSE Some([payloads[1] EXCEPT
                         ![k] = TouchSample(@, target, weather_entry)]),
            weather_lookup, target, dated)

\* the requests made of fetch_regions: a known region, two known regions,
\* an unknown region before a known one
Requests ==
  { << REGION_SOURCES[1].id >>,
    << REGION_SOURCES[2].id, REGION_SOURCES[1].id >>,
    << "nowhere", REGION_SOURCES[1].id >> }
Filters(regions) ==
  IF Len(regions) > 1 /\ RegistryGet(regions[1]) # None
  THEN {None, Some(regions[2])} ELSE {None}
\* no target date, or noon of the day before yesterday
Targets == {None, Some(Today - 2)}
\* the outcomes of the weather requests of one call, per forecast city: the
\* feed answers every city, or all but one of the cities asked
WeatherInputs(sources, target, pm) ==
  IF OutsideHorizon(target, pm) THEN {[c \in ForecastCities |-> "ok"]}
  ELSE {[c \in ForecastCities |-> "ok"]}
         \cup {[c \in ForecastCities |->
                  IF c = sources[i].forecast_city THEN o ELSE "ok"] :
                 i \in 1..Len(sources), o \in WeatherOutcomes}

\* client.py fetch_regions, with no other coroutine active
FetchRegions(regions, region_filter, force, target, pm, dated) ==
  /\ AllIdle
  /\ nops < MaxOps
  /\ nops' = nops + 1
  /\ UNCHANGED <<disable_live_fetch, static_files, pc, sample_file, probe,
                 clock>>
  /\ LET sources == ResolveSources(regions, region_filter, 1)
         date_key == IF target # None THEN target[1] ELSE Today
         asked == [called |-> TRUE, regions |-> regions,
                   region_filter |-> region_filter, target |-> target,
                   raised |-> FALSE, records |-> <<>>]
     IN IF sources = <<>>
        THEN /\ reply' = asked
             /\ UNCHANGED <<daily_cache, cache_source_keys, disk, raw, last,
                            inserted, nfaults, sample_cache, weather_cache>>
        ELSE /\ LoadDailyPollenMap("fetch_regions", date_key, force,
                                   UniformResults[date_key])
             /\ IF last'.raised
                THEN /\ reply' = [asked EXCEPT !.raised = TRUE]
                     /\ UNCHANGED <<sample_cache, weather_cache>>
                ELSE \E wx \in WeatherInputs(sources, target, pm) :
                     \E sp \in {LoadSamplePayloads(sample_cache, sample_file)},
                        w \in {LoadWeatherData(sources, target, pm,
                                               weather_cache, clock, wx)} :
                        /\ sample_cache' =
                             IF w.raised THEN sp.cache
                             ELSE TouchSamples(1, sources, last'.result,
                                    sp.cache, w.results, target, dated)
                        /\ weather_cache' = w.cache
                        /\ reply' =
                             IF w.raised THEN [asked EXCEPT !.raised = TRUE]
                             ELSE [asked EXCEPT !.records =
                                     [i \in 1..Len(sources) |->
                                        BuildRecord(sources[i], last'.result,
                                          sp.payloads, w.results,
                                          static_files, target, dated)]]

\* WEATHER_CACHE_TTL_SECONDS pass since the captures in the weather cache
WeatherTtlElapses ==
  /\ \E c \in ForecastCities :
       weather_cache[c] # None /\ CacheFresh(clock, weather_cache[c][1].at)
  /\ clock + WEATHER_CACHE_TTL_SECONDS <= MaxClock
  /\ nops < MaxOps
  /\ clock' = clock + WEATHER_CACHE_TTL_SECONDS
  /\ UNCHANGED <<daily_cache, cache_source_keys, disk, raw, disable_live_fetch,
                 static_files, pc, last, inserted, nops, nfaults, sample_file,
                 sample_cache, weather_cache, reply, probe>>

\* a deployment without a static bundle, with any sample file
InitFetch ==
  /\ InitClient
  /\ static_files = [st \in Stations |-> None]
  /\ sample_file \in SampleConfigs

NextFetch ==
  \/ \E r \in Requests, f \in BOOLEAN, tg \in Targets :
       \E rf \in Filters(r), pm \in (IF tg = None THEN {FALSE} ELSE BOOLEAN),
          dated \in (IF tg = None THEN BOOLEAN ELSE {TRUE}) :
         FetchRegions(r, rf, f, tg, pm, dated)
  \/ WeatherTtlElapses

SpecFetch == InitFetch /\ [][NextFetch]_vars

\* the same deployment with a sample file of one record that has objects
InitSample ==
  /\ InitClient
  /\ static_files = [st \in Stations |-> None]
  /\ sample_file = ListSample(<< NestedSampleRecord(REGION_SOURCES[1].id) >>)
SpecSample == InitSample /\ [][NextFetch]_vars

\* ------------------------------------------------- prefetch and retention
\* the value of the one element of a singleton
Only(S) == CHOOSE x \in S : TRUE
OptGet(m, k) == IF k \in DOMAIN m THEN Some(m[k]) ELSE None
\* dict.pop(key, None) on the date table alone
DropMemOnly(st, key) ==
  [st EXCEPT !.mem = Restrict(@, (DOMAIN @) \ {key})]
\* dict.pop(key, None) on both tables
Drop(st, key) ==
  [st EXCEPT !.mem = Restrict(@, (DOMAIN @) \ {key}),
             !.src = Restrict(@, (DOMAIN @) \ {key})]
\* the tables and the cache directory as a handler sees them
Tables ==
  [mem |-> daily_cache, src |-> cache_source_keys, files |-> disk,
   rawdirs |-> raw]

\* how the upstream answers the requests of one date: every city with a
\* reading, every request timing out, or a reading for every city but the
\* last, whose body csv.DictReader rejects
UpstreamKinds == {"up", "down", "broken"}
MaintOutcome(i, kind) ==
  IF kind = "down" THEN UniformOutcome(REGION_SOURCES[i], FALSE)
  ELSE IF kind = "broken" /\ i = Len(REGION_SOURCES)
  THEN [kind |-> "csv_error", rows |-> <<>>]
  ELSE UniformOutcome(REGION_SOURCES[i], TRUE)
\* what _download_daily_entries(date_key) gives under each (tabulated)
MaintResults ==
  [d \in Dates |->
     [kind \in UpstreamKinds |->
        DownloadDailyEntries(
          [i \in SourceIdx |->
             DownloadCityEntry(REGION_SOURCES[i], BuildTargetDates(d),
               [j \in 1..(LookbackDays + 1) |-> MaintOutcome(i, kind)])])]]

\* _load_daily_pollen_map(date_key, force) run to its end on the tables st
\* with no I/O failure, the live fetch (if it runs) giving dl
LoadDailyQuiet(date_key, force, st, disable, sfiles, dl) ==
  IF ~force /\ date_key \in DOMAIN st.mem
  THEN [raised |-> FALSE, tier |-> "memory", result |-> st.mem[date_key],
        mem |-> st.mem, src |-> st.src, files |-> st.files,
        rawdirs |-> st.rawdirs]
  ELSE LoadDailyTail(date_key, force, st.mem, st.src, st.files, st.rawdirs,
         disable, sfiles,
         IF FirstReadAttempted(st.files[date_key], force, disable)
         THEN ReadJson(st.files[date_key], TRUE) ELSE None,
         dl, TRUE, "ok", {})

\* prefetch_date_range 893-916: the loop from `cur` to the end date; kinds[d]
\* is how the upstream answers for date d
RECURSIVE PrefetchRangeLoop(_, _, _, _, _, _, _, _)
PrefetchRangeLoop(cur, end, force, keep_keys, st, disable, sfiles, kinds) ==
  IF cur > end THEN st
  ELSE Only({PrefetchRangeLoop(cur + 1, end, force, keep_keys,
               IF cur \in keep_keys THEN out ELSE Drop(out, cur),
               disable, sfiles, kinds) :
             out \in {LoadDailyQuiet(cur, force, st, disable, sfiles,
                                     MaintResults[cur][kinds[cur]])}})

\* prefetch_date_range 918-927: what stays in memory
PrefetchRangeFinish(st, keep_keys) ==
  IF keep_keys = {}
  THEN [st EXCEPT !.mem = EmptyMap, !.src = EmptyMap]
  ELSE [st EXCEPT
          !.mem = Restrict(@, (DOMAIN @) \cap keep_keys),
          !.src = Restrict(@, (DOMAIN @) \ ((DOMAIN st.mem) \ keep_keys))]

\* the call the maintenance handlers leave a note of
Note(arg, result) == [applied |-> TRUE, arg |-> arg, result |-> result]

\* prefetch_selectable_range / prefetch_date_range: both dates at noon
PrefetchDateRange(start, end, force, keep_keys, kinds) ==
  /\ AllIdle
  /\ nops < MaxOps
  /\ nops' = nops + 1
  /\ \E st \in {IF end < start THEN Tables
                 ELSE PrefetchRangeFinish(
                        PrefetchRangeLoop(start, end, force, keep_keys, Tables,
                          disable_live_fetch, static_files, kinds),
                        keep_keys)} :
       /\ daily_cache' = st.mem
       /\ cache_source_keys' = st.src
       /\ disk' = st.files
       /\ raw' = st.rawdirs
  /\ probe' = Note([op |-> "prefetch_date_range", start |-> start, end |-> end,
                    force |-> force, keep_keys |-> keep_keys], <<>>)
  /\ UNCHANGED <<disable_live_fetch, static_files, pc, last, inserted, nfaults,
                 sample_file, sample_cache, weather_cache, reply, clock>>

\* prefetch_history 943-965: the loop over the offsets; gives the tables, the
\* captured entry of today and the dates it asked for
RECURSIVE PrefetchHistoryLoop(_, _, _, _, _, _, _, _, _, _)
PrefetchHistoryLoop(offset, days, force, st, cached_today, cached_today_source, resolved, disable, sfiles, kinds) ==
  IF offset > days
  THEN [st |-> st, cached_today |-> cached_today,
        cached_today_source |-> cached_today_source, resolved |-> resolved]
  ELSE Only({IF out.raised
             THEN PrefetchHistoryLoop(offset + 1, days, force, out,
                    cached_today, cached_today_source,
                    Append(resolved, Today - offset), disable, sfiles, kinds)
             ELSE IF offset = 0
             THEN PrefetchHistoryLoop(offset + 1, days, force, out,
                    OptGet(out.mem, Today), OptGet(out.src, Today),
                    Append(resolved, Today - offset), disable, sfiles, kinds)
             ELSE PrefetchHistoryLoop(offset + 1, days, force,
                    Drop(out, Today - offset),
                    cached_today, cached_today_source,
                    Append(resolved, Today - offset), disable, sfiles, kinds) :
             out \in {LoadDailyQuiet(Today - offset, force, st, disable, sfiles,
                        MaintResults[Today - offset][kinds[Today - offset]])}})

\* prefetch_history 967-974 without the clear: the tables keep what they hold
PrefetchHistoryFinishNoClear(st, cached_today, cached_today_source) ==
  IF cached_today = None THEN st
  ELSE [st EXCEPT
          !.mem = Put(@, Today, cached_today[1]),
          !.src = Put(@, Today,
                      IF cached_today_source # None THEN cached_today_source[1]
                      ELSE Provenance(FALSE, Today))]
\* prefetch_history 967-974: both tables are emptied and today's entry, if
\* one was captured, is put back
PrefetchHistoryFinish(st, cached_today, cached_today_source) ==
  IF cached_today = None
  THEN [st EXCEPT !.mem = EmptyMap, !.src = EmptyMap]
  ELSE [st EXCEPT
          !.mem = Put(EmptyMap, Today, cached_today[1]),
          !.src = Put(EmptyMap, Today,
                      IF cached_today_source # None THEN cached_today_source[1]
                      ELSE Provenance(FALSE, Today))]

\* prefetch_history(days, force_refresh)
PrefetchHistory(days, force, kinds) ==
  /\ AllIdle
  /\ nops < MaxOps
  /\ nops' = nops + 1
  /\ \E r \in {IF days < 0
                THEN [st |-> Tables, resolved |-> <<>>]
                ELSE Only({[st |-> PrefetchHistoryFinish(l.st, l.cached_today,
                                     l.cached_today_source),
                            resolved |-> l.resolved] :
                           l \in {PrefetchHistoryLoop(0, days, force, Tables,
                                    None, None, <<>>, disable_live_fetch,
                                    static_files, kinds)}})} :
       /\ daily_cache' = r.st.mem
       /\ cache_source_keys' = r.st.src
       /\ disk' = r.st.files
       /\ raw' = r.st.rawdirs
       /\ probe' = Note([op |-> "prefetch_history", days |-> days,
                         force |-> force], [resolved |-> r.resolved])
  /\ UNCHANGED <<disable_live_fetch, static_files, pc, last, inserted, nfaults,
                 sample_file, sample_cache, weather_cache, reply, clock>>

\* the floor of the retention refresh_cache applies, scaled down from 365
MIN_RETENTION_DAYS == 2
\* datetime.now() of a maintenance run, in quarter days: midnight, morning
\* or afternoon of today
Nows == {4 * Today, 4 * Today + 1, 4 * Today + 3}

\* _cleanup_old_cache 832 with <= in place of <
OlderThanInclusive(d, now4, retention_days) == 4 * d <= now4 - 4 * retention_days
\* _cleanup_old_cache 813 and 832: day < cutoff, the day at midnight
OlderThan(d, now4, retention_days) == 4 * d < now4 - 4 * retention_days

\* _cleanup_old_cache(retention_days) on the cache directory
CleanupOldCache(st, retention_days, now4) ==
  IF retention_days <= 0 THEN st
  ELSE [st EXCEPT
          !.files = [d \in Dates |->
                       IF @[d].exists /\ OlderThan(d, now4, retention_days)
                       THEN AbsentFile ELSE @[d]],
          !.rawdirs = {d \in @ : ~OlderThan(d, now4, retention_days)}]

\* a retention pass on its own; removed: the aggregate files it deleted
Cleanup(retention_days, now4) ==
  /\ AllIdle
  /\ nops < MaxOps
  /\ nops' = nops + 1
  /\ \E st \in {CleanupOldCache(Tables, retention_days, now4)} :
       /\ disk' = st.files
       /\ raw' = st.rawdirs
       /\ probe' = Note([op |-> "cleanup", retention_days |-> retention_days,
                         now |-> now4],
                        [removed |-> {d \in Dates : disk[d].exists
                                                    /\ ~st.files[d].exists}])
  /\ UNCHANGED <<daily_cache, cache_source_keys, disable_live_fetch,
                 static_files, pc, last, inserted, nfaults, sample_file,
                 sample_cache, weather_cache, reply, clock>>

\* POLLEN_CACHE_RETENTION_DAYS of the process: a number, or text int() rejects
RetentionConfigs ==
  {Num(0), Num(1), Num(MIN_RETENTION_DAYS), Num(MIN_RETENTION_DAYS + 1), NotNum}
\* refresh_cache 178-181 without the floor
RetentionAsConfigured(conf) == conf.val
\* refresh_cache 178-181: max(int(env), 365)
RetentionDays(conf) ==
  IF conf.val > MIN_RETENTION_DAYS THEN conf.val ELSE MIN_RETENTION_DAYS

\* refresh_cache: today is resolved afresh, then the retention pass runs;
\* removed: the aggregate files the pass deleted
RefreshCache(conf, now4, kind) ==
  /\ AllIdle
  /\ nops < MaxOps
  /\ nops' = nops + 1
  /\ weather_cache' = NoWeather
  /\ \E out \in {LoadDailyQuiet(Today, TRUE, Drop(Tables, Today),
                                 disable_live_fetch, static_files,
                                 MaintResults[Today][kind])} :
       \E st \in {IF out.raised \/ ~conf.numeric THEN out
                  ELSE CleanupOldCache(out, RetentionDays(conf), now4)} :
         /\ daily_cache' = st.mem
         /\ cache_source_keys' = st.src
         /\ disk' = st.files
         /\ raw' = st.rawdirs
         /\ probe' = Note([op |-> "refresh_cache", conf |-> conf, now |-> now4],
                          [raised |-> out.raised \/ ~conf.numeric,
                           removed |-> {d \in Dates : out.files[d].exists
                                                       /\ ~st.files[d].exists}])
  /\ UNCHANGED <<disable_live_fetch, static_files, pc, last, inserted, nfaults,
                 sample_file, sample_cache, reply, clock>>

\* the longest range a prefetch of the model covers beyond its first date
MaxSpan == 1
\* the dates to keep in memory: none, the first of the range, or the last date
KeepChoices(start) == {{}, {start}, {MaxDate}}

InitMaint ==
  /\ InitClient
  /\ static_files = [st \in Stations |-> None]
  /\ sample_file = AbsentSample

NextMaint ==
  \/ \E start \in Dates, force \in BOOLEAN :
       \E end \in {e \in Dates : start - 1 <= e /\ e <= start + MaxSpan},
          keep_keys \in KeepChoices(start) :
         \E kinds \in [start..end -> UpstreamKinds] :
           PrefetchDateRange(start, end, force, keep_keys, kinds)
  \/ \E days \in (0 - 1)..MaxSpan, force \in BOOLEAN :
       \E kinds \in [(Today - days)..Today -> UpstreamKinds] :
         PrefetchHistory(days, force, kinds)
  \/ \E retention_days \in 0..(MIN_RETENTION_DAYS + 1), now4 \in Nows :
       Cleanup(retention_days, now4)
  \/ \E conf \in RetentionConfigs, now4 \in Nows, kind \in UpstreamKinds :
       RefreshCache(conf, now4, kind)

SpecMaint == InitMaint /\ [][NextMaint]_vars

\* the maintenance runs and plain resolves, one after the other
NextTables ==
  \/ NextMaint
  \/ \E d \in Dates, f \in BOOLEAN : Resolve(d, f)
SpecTables == InitMaint /\ [][NextTables]_vars

\* ------------------------------------- prefetch_history beside refresh_cache
\* prefetch_history awaits once per date, and refresh_cache (the scheduler's
\* task) may run while it waits; pc[1] holds the locals of the
\* running prefetch_history
HistoryLocals(days, force) ==
  [st |-> "history", date |-> Today, force |-> force, offset |-> 0,
   days |-> days, cached_today |-> None, cached_today_source |-> None]

\* what a resolve of today leaves in `last`
TodayResolved(op, force, out) ==
  [op |-> op, date |-> Today, force |-> force, raised |-> out.raised,
   tier |-> out.tier, result |-> out.result, io |-> NoIo]

\* prefetch_history 935-941
HistoryStart(days, force) ==
  /\ AllIdle
  /\ nops < MaxOps
  /\ nops' = nops + 1
  /\ pc' = [pc EXCEPT ![1] = HistoryLocals(days, force)]
  /\ UNCHANGED <<daily_cache, cache_source_keys, disk, raw, disable_live_fetch,
                 static_files, last, inserted, nfaults, sample_file,
                 sample_cache, weather_cache, reply, probe, clock>>

\* prefetch_history 943-964: one turn of the loop, from the tables as they
\* are when the awaited resolve runs
HistoryTurn(loc, kind) ==
  LET date_key == Today - loc.offset IN
  Only({[out |-> out,
         st |-> IF out.raised \/ date_key = Today THEN out
                ELSE Drop(out, date_key),
         date |-> date_key,
         cached_today |-> IF ~out.raised /\ date_key = Today
                          THEN OptGet(out.mem, Today) ELSE loc.cached_today,
         cached_today_source |-> IF ~out.raised /\ date_key = Today
                                 THEN OptGet(out.src, Today)
                                 ELSE loc.cached_today_source] :
        out \in {LoadDailyQuiet(date_key, loc.force, Tables,
                                disable_live_fetch, static_files,
                                MaintResults[date_key][kind])}})

\* prefetch_history 943-964: a turn of the loop that is not the last; the
\* next turn waits for its download
HistoryStep(kind) ==
  /\ pc[1].st = "history"
  /\ pc[1].offset < pc[1].days
  /\ \E t \in {HistoryTurn(pc[1], kind)} :
       /\ daily_cache' = t.st.mem
       /\ cache_source_keys' = t.st.src
       /\ disk' = t.st.files
       /\ raw' = t.st.rawdirs
       /\ pc' = [pc EXCEPT ![1].offset = @ + 1,
                           ![1].date = t.date,
                           ![1].cached_today = t.cached_today,
                           ![1].cached_today_source = t.cached_today_source]
       /\ last' = IF t.date = Today /\ ~t.out.raised
                  THEN TodayResolved("prefetch_history", pc[1].force, t.out)
                  ELSE last
  /\ UNCHANGED <<disable_live_fetch, static_files, inserted, nops, nfaults,
                 sample_file, sample_cache, weather_cache, reply, probe, clock>>

\* prefetch_history 943-974: the last turn of the loop, after which the
\* tables are cleared and today is put back without a further await
HistoryFinish(kind) ==
  /\ pc[1].st = "history"
  /\ pc[1].offset = pc[1].days
  /\ \E t \in {HistoryTurn(pc[1], kind)} :
       /\ \E st \in {PrefetchHistoryFinish(t.st, t.cached_today,
                                           t.cached_today_source)} :
            /\ daily_cache' = st.mem
            /\ cache_source_keys' = st.src
            /\ disk' = st.files
            /\ raw' = st.rawdirs
       /\ last' = IF t.date = Today /\ ~t.out.raised
                  THEN TodayResolved("prefetch_history", pc[1].force, t.out)
                  ELSE last
  /\ pc' = [pc EXCEPT ![1] = Idle]
  /\ UNCHANGED <<disable_live_fetch, static_files, inserted, nops, nfaults,
                 sample_file, sample_cache, weather_cache, reply, probe, clock>>

\* refresh_cache 169-182, run to its end while prefetch_history may be
\* waiting for a download
Refresh(conf, now4, kind) ==
  /\ nops < MaxOps
  /\ nops' = nops + 1
  /\ weather_cache' = NoWeather
  /\ \E out \in {LoadDailyQuiet(Today, TRUE, Drop(Tables, Today),
                                 disable_live_fetch, static_files,
                                 MaintResults[Today][kind])} :
       \E st \in {IF out.raised \/ ~conf.numeric THEN out
                  ELSE CleanupOldCache(out, RetentionDays(conf), now4)} :
         /\ daily_cache' = st.mem
         /\ cache_source_keys' = st.src
         /\ disk' = st.files
         /\ raw' = st.rawdirs
         /\ last' = TodayResolved("refresh_cache", TRUE, out)
  /\ UNCHANGED <<disable_live_fetch, static_files, pc, inserted, nfaults,
                 sample_file, sample_cache, reply, probe, clock>>

NextRace ==
  \/ \E days \in 0..MaxSpan, force \in BOOLEAN : HistoryStart(days, force)
  \/ \E kind \in UpstreamKinds : HistoryStep(kind)
  \/ \E kind \in UpstreamKinds : HistoryFinish(kind)
  \/ \E conf \in RetentionConfigs, now4 \in Nows, kind \in UpstreamKinds :
       Refresh(conf, now4, kind)

SpecRace == InitMaint /\ [][NextRace]_vars

\* ------------------------------------------------------- helpers on their own
\* everything but the helper call under examination
client_vars == <<daily_cache, cache_source_keys, disk, raw, disable_live_fetch,
                 static_files, pc, last, inserted, nops, nfaults,
                 sample_file, sample_cache, weather_cache, reply, clock>>
\* a fresh client and one helper call about to be made with an argument
InitHelper(args) ==
  /\ daily_cache = EmptyMap
  /\ cache_source_keys = EmptyMap
  /\ disk = [d \in Dates |-> AbsentFile]
  /\ raw = {}
  /\ disable_live_fetch = FALSE
  /\ static_files = [st \in Stations |-> None]
  /\ pc = [t \in Tasks |-> Idle]
  /\ last = NoCall
  /\ inserted = {}
  /\ nops = 0
  /\ nfaults = 0
  /\ sample_file = AbsentSample
  /\ sample_cache = None
  /\ weather_cache = NoWeather
  /\ reply = NoReply
  /\ probe \in {[applied |-> FALSE, arg |-> a, result |-> <<>>] : a \in args}
  /\ clock = 0

\* ---------------------------------------------------------- severity levels
\* readings are floats; the model counts them in thousandths
Milli == 10 * 10 * 10
\* how far around each threshold the readings of the model spread
ReadingSpread == 12
Readings ==
  {t * Milli + e : t \in {0, 1, 11, 31, 101},
                   e \in (0 - ReadingSpread)..ReadingSpread}
    \cup {0 - 5 * Milli, 20 * Milli, 60 * Milli, 250 * Milli}

\* static_data.py 145-154, with > in place of >=
ClassifyLevelStrict(value) ==
  IF value > 101 * Milli THEN "very_high"
  ELSE IF value > 31 * Milli THEN "high"
  ELSE IF value > 11 * Milli THEN "moderate"
  ELSE IF value > 1 * Milli THEN "low"
  ELSE "low"
\* static_data.py 145-154: StaticDataMixin._classify_level
ClassifyLevel(value) ==
  IF value >= 101 * Milli THEN "very_high"
  ELSE IF value >= 31 * Milli THEN "high"
  ELSE IF value >= 11 * Milli THEN "moderate"
  ELSE IF value >= 1 * Milli THEN "low"
  ELSE "low"
\* data_fetcher.py 235-245: PollenDataFetcher._classify_pollen_level
ClassifyPollenLevel(value) ==
  IF value >= 101 * Milli THEN "very_high"
  ELSE IF value >= 31 * Milli THEN "high"
  ELSE IF value >= 11 * Milli THEN "moderate"
  ELSE IF value >= 1 * Milli THEN "low"
  ELSE "low"

\* both classifiers applied to one reading
Classify ==
  /\ ~probe.applied
  /\ probe' = [probe EXCEPT !.applied = TRUE,
                            !.result = [client |-> ClassifyLevel(probe.arg),
                                        fetcher |-> ClassifyPollenLevel(probe.arg)]]
  /\ UNCHANGED client_vars

InitLevel == InitHelper(Readings)
SpecLevel == InitLevel /\ [][Classify]_vars

\* ------------------------------------------------------ one live fetch alone
\* _download_daily_entries(date_key): probe.arg.results[i] is what the
\* requests of source i end in (what _download_city_entry gives when it is
\* awaited)
Download ==
  /\ ~probe.applied
  /\ probe' = [probe EXCEPT !.applied = TRUE,
                            !.result = DownloadDailyEntries(probe.arg.results)]
  /\ UNCHANGED client_vars

InitDownload ==
  InitHelper(UNION {{[date_key |-> d, results |-> rs] :
                       rs \in CityResultSeqs(Len(REGION_SOURCES), d)} :
                    d \in Dates})
SpecDownload == InitDownload /\ [][Download]_vars

\* ------------------------------------------------- weather requests in time
\* the target dates of the weather requests: none, and the days the horizon
\* of _load_weather_data lets through
WeatherTargets == {None, Some(Today - 1), Some(Today), Some(Today + 1)}
\* one _get_weather_for_city(city, target_date) at the current time, the
\* upstream answering with `outcome` if it is asked
WeatherRequest(city, target, outcome) ==
  /\ \E got \in {GetWeatherForCity(weather_cache, city, target, clock,
                                     outcome)} :
       /\ weather_cache' = got.cache
       /\ probe' = [applied |-> TRUE,
                    arg |-> [city |-> city, target |-> target,
                             outcome |-> outcome, now |-> clock],
                    result |-> [raised |-> got.raised, entry |-> got.entry,
                                queried |-> got.queried]]
  /\ UNCHANGED <<daily_cache, cache_source_keys, disk, raw, disable_live_fetch,
                 static_files, pc, last, inserted, nops, nfaults, sample_file,
                 sample_cache, reply, clock>>

\* time passes
Tick ==
  /\ clock < MaxClock
  /\ clock' = clock + 1
  /\ UNCHANGED <<daily_cache, cache_source_keys, disk, raw, disable_live_fetch,
                 static_files, pc, last, inserted, nops, nfaults, sample_file,
                 sample_cache, weather_cache, reply, probe>>

InitTtl == InitHelper({<<>>})
NextTtl ==
  \/ \E c \in ForecastCities, t \in WeatherTargets, o \in WeatherOutcomes :
       WeatherRequest(c, t, o)
  \/ Tick
SpecTtl == InitTtl /\ [][NextTtl]_vars

\* ------------------------------------------------- the CSV parser on its own
\* the pollen column of a row: readings, a negative value, the sentinel,
\* text that is no number, and the text "nan"
ParseTokens == {Num(0), Num(12), Num(0 - 5), Num(SENTINEL), NotNum, NanText}
ParseRows ==
  {Row(c, t) : c \in {"", REGION_SOURCES[1].city_code, REGION_SOURCES[2].city_code},
               t \in ParseTokens}
\* _parse_csv_payload applied to a body
Parse ==
  /\ ~probe.applied
  /\ probe' = [probe EXCEPT !.applied = TRUE,
                            !.result = ParseCsvPayload(probe.arg)]
  /\ UNCHANGED client_vars

InitParse == InitHelper({<<>>} \cup {<<r>> : r \in ParseRows}
                          \cup {<<r, q>> : r \in ParseRows, q \in ParseRows})
SpecParse == InitParse /\ [][Parse]_vars

\* ================================================================== claims
Resolved == last.op = "resolve"
BadShapeOnDisk ==
  \E d \in Dates : disk[d].exists /\ disk[d].readable
                     /\ disk[d].shape \in {"object", "scalars"}
SoundFile(file) ==
  file.exists /\ file.readable /\ file.shape = "list" /\ file.items # <<>>
\* the numeric reading of an entry: the live pollen value, else the
\* baseline count
Reading(e) == IF e.pollen # None THEN e.pollen[1] ELSE e.pollen_count[1]
\* the transition is the return of a call of _load_daily_pollen_map(d, f)
Returns(d, f) ==
  nops' = nops + 1 /\ last'.op = "resolve" /\ last'.date = d /\ last'.force = f

\* C1: a resolve never raises because of the upstream: whatever the requests
\* of the live fetch end in, the call returns a map; a raise, if any, comes
\* from a cache file of unexpected shape read in the disk or stale tier.
C1_NoRaiseForUpstream ==
  (Resolved /\ last.raised) =>
     (last.tier \in {"disk", "disk_retry", "stale"} /\ BadShapeOnDisk)

\* C2: a resolve returns a non-empty map whose readings are all >= 0
C2_NonEmptyNonNegative ==
  (Resolved /\ ~last.raised /\ last.tier \in {"live", "static"}) =>
     /\ last.result # EmptyMap
     /\ \A k \in DOMAIN last.result : Reading(last.result[k]) >= 0

\* C3: with live fetch disabled, a sound aggregate for D on disk and D not in
\* memory, resolve(D) (no I/O failure on the way) returns the content of the
\* file and leaves the file as it is
C3_DiskFallbackExact ==
  [][\A d \in Dates :
       (disable_live_fetch /\ Returns(d, FALSE) /\ d \notin DOMAIN daily_cache
          /\ SoundFile(disk[d]) /\ nfaults' = nfaults)
       => (/\ ~last'.raised
           /\ last'.result = BuildPollenMap(disk[d].items)
           /\ disk'[d] = disk[d])]_vars

\* C4: with sound aggregates for D-2 and D+2 only, D not in memory and a live
\* fetch that yields nothing, resolve(D) (no I/O failure on the way) returns
\* the content of the D+2 file
C4_StaleTieBreak ==
  [][\A d \in Dates : \A f \in BOOLEAN :
       (/\ Returns(d, f)
        /\ d - 2 \in Dates /\ d + 2 \in Dates
        /\ \A x \in Dates : disk[x].exists <=> x \in {d - 2, d + 2}
        /\ SoundFile(disk[d - 2]) /\ SoundFile(disk[d + 2])
        /\ d \notin DOMAIN daily_cache
        /\ nfaults' = nfaults
        /\ last'.tier # "live")
       => (~last'.raised /\ last'.result = BuildPollenMap(disk[d + 2].items))]_vars

\* C5: two consecutive resolve(D, force_refresh = false) calls return the
\* same content
C5_Idempotent ==
  [][\A d \in Dates :
       (Resolved /\ last.date = d /\ ~last.force /\ Returns(d, FALSE))
       => (last'.raised = last.raised /\ last'.result = last.result)]_vars

\* C6: in every resolved map, each registry source whose city code is in the
\* map has all its aliases in the map, all at the very same entry, and an
\* alias of a source in the map never leads to the entry of another source
ConsistentMap(m) ==
  \A i \in SourceIdx :
    LET s == REGION_SOURCES[i]
    IN /\ s.city_code \in DOMAIN m =>
            \A a \in AliasesOf(s) : a \in DOMAIN m /\ m[a] = m[s.city_code]
       /\ \A a \in AliasesOf(s) \cap DOMAIN m : m[a].region_id = s.id
C6_AliasConsistency ==
  /\ \A d \in DOMAIN daily_cache : ConsistentMap(daily_cache[d])
  /\ Resolved => ConsistentMap(last.result)

\* C6 witness: a live resolve whose map has every alias of every source
C6_Witness ==
  Resolved /\ last.tier = "live" /\ ~last.raised
    /\ \A i \in SourceIdx : AliasesOf(REGION_SOURCES[i]) \subseteq DOMAIN last.result

\* C9: a resolve never raises, whatever the state of the aggregate files
C9_DiskFailureIsMiss == Resolved => ~last.raised

\* C10: once more than max_entries distinct dates were resolved with
\* non-empty results, the in-memory table holds exactly the max_entries most
\* recent of them, and the provenance table has the same keys
MostRecent(S) ==
  IF Cardinality(S) <= max_entries THEN S
  ELSE CHOOSE T \in SUBSET S :
         Cardinality(T) = max_entries /\ \A a \in T, b \in S \ T : b < a
C10_MemoryBound ==
  Cardinality(inserted) > max_entries =>
     /\ DOMAIN daily_cache = MostRecent(inserted)
     /\ Cardinality(DOMAIN daily_cache) = max_entries
     /\ DOMAIN cache_source_keys = DOMAIN daily_cache

\* C10 witness: max_entries + 2 dates were resolved and the two oldest are
\* the ones that are gone
C10_Witness ==
  /\ Cardinality(inserted) = max_entries + 2
  /\ Cardinality(inserted \ DOMAIN daily_cache) = 2
  /\ \A a \in DOMAIN daily_cache, b \in inserted \ DOMAIN daily_cache : b < a

\* C7: at most one call of _load_daily_pollen_map for a date key is between
\* its memory check and its return at any time: two coroutines are never
\* both in the live fetch of the same date
C7_PerDateExclusion ==
  \A t1, t2 \in Tasks :
    (t1 # t2 /\ pc[t1].st = "fetching" /\ pc[t2].st = "fetching")
       => pc[t1].date # pc[t2].date

\* the regions of a request that the registry knows and the filter lets
\* through, in request order
Requested(regions, region_filter) ==
  SelectSeq(regions,
    LAMBDA id : /\ region_filter = None \/ id = region_filter[1]
                /\ \E i \in SourceIdx : REGION_SOURCES[i].id = id)

\* C8: fetch_regions returns, and returns exactly one record for every
\* requested region of the registry, in request order, whatever the tiers,
\* the sample file, the static bundle and the weather feed did
C8_OneRecordPerRegion ==
  reply.called =>
    /\ ~reply.raised
    /\ Len(reply.records) = Len(Requested(reply.regions, reply.region_filter))
    /\ \A i \in 1..Len(reply.records) :
         reply.records[i].region_id
           = Requested(reply.regions, reply.region_filter)[i]

\* C11: in every reachable state the in-memory date table holds at most
\* max_entries entries, resolutions that end EMPTY included
C11_TableNeverOverfull == Cardinality(DOMAIN daily_cache) <= max_entries

\* C16: a reading of 101 or more is very_high, from 31 up to 101 high, from
\* 11 up to 31 moderate, below 11 low, and the client's and the fetcher's
\* classifiers give the same level for every reading
C16_SeverityLevels ==
  probe.applied =>
    /\ probe.result.client =
         (IF probe.arg < 11 * Milli THEN "low"
          ELSE IF probe.arg < 31 * Milli THEN "moderate"
          ELSE IF probe.arg < 101 * Milli THEN "high"
          ELSE "very_high")
    /\ probe.result.fetcher = probe.result.client
\* 10.999 is low and 11 is moderate
C16_Witness ==
  /\ probe.applied
  /\ probe.arg = 11 * Milli
  /\ probe.result.client = "moderate"

\* C17: a failure of one city's requests, of any kind, does not propagate
\* out of the live fetch, and every city whose fetch succeeded has its entry
\* in the result
C17_FailureIsolation ==
  probe.applied =>
    /\ ~probe.result.raised
    /\ \A i \in SourceIdx :
         probe.arg.results[i].entry # None =>
           \E k \in 1..Len(probe.result.entries) :
             probe.result.entries[k] = probe.arg.results[i].entry[1]

\* C18: a failing weather request (a non-200 status, a network error, a
\* timeout or a body of unexpected shape) never makes fetch_regions raise:
\* the call raises only when the pollen resolution raised
C18_WeatherFailureContained == reply.raised => last.raised

\* C20: for a target date more than one day before or after today no
\* weather is queried or merged: the records carry no weather entry
\* (last.date is the date the call resolved pollen for, its target date)
C20_WeatherHorizon ==
  (/\ reply.called
   /\ ~reply.raised
   /\ last.op = "fetch_regions"
   /\ Abs(last.date - Today) > 1)
    => \A i \in 1..Len(reply.records) : reply.records[i].weather = None

\* C19: a weather value cached for a city is returned without an upstream
\* query while its age is below the TTL; from the moment its age reaches the
\* TTL a request queries upstream; the cache entry and its capture time are
\* replaced only by a successfully parsed response
C19_WeatherTtl ==
  [][probe' # probe =>
       LET c == probe'.arg.city
           cached == weather_cache[c]
       IN /\ (cached # None /\ clock - cached[1].at < WEATHER_CACHE_TTL_SECONDS)
               => /\ ~probe'.result.queried
                  /\ probe'.result.entry = Some(cached[1].entry)
                  /\ weather_cache' = weather_cache
          /\ (cached # None /\ clock - cached[1].at >= WEATHER_CACHE_TTL_SECONDS)
               => probe'.result.queried
          /\ weather_cache' # weather_cache
               => /\ probe'.arg.outcome = "ok"
                  /\ probe'.result.queried
                  /\ probe'.result.entry # None
                  /\ weather_cache' =
                       [weather_cache EXCEPT ![c] =
                          Some([at |-> clock, entry |-> probe'.result.entry[1]])]
    ]_vars
\* a capture one unit younger than the TTL is served without a query
C19_Witness ==
  /\ probe.applied
  /\ ~probe.result.queried
  /\ weather_cache[probe.arg.city] # None
  /\ clock - weather_cache[probe.arg.city][1].at = WEATHER_CACHE_TTL_SECONDS - 1
  /\ probe.result.entry = Some(weather_cache[probe.arg.city][1].entry)

\* a step of a maintenance handler
Ran(op) == nops' = nops + 1 /\ probe'.arg.op = op

\* C12: after prefetch_date_range(start, end, keep_dates) with start <= end
\* an aggregate file exists for every date from start to end, and the
\* in-memory table holds no date outside keep_dates
C12_PrefetchRange ==
  [][(Ran("prefetch_date_range") /\ probe'.arg.start <= probe'.arg.end)
       => /\ \A d \in probe'.arg.start..probe'.arg.end : disk'[d].exists
          /\ DOMAIN daily_cache' \subseteq probe'.arg.keep_keys]_vars

\* C13: prefetch_history(days) with days >= 0 resolves today and each of the
\* `days` dates before it; afterwards the in-memory table has no key but
\* today's, whatever it held before, and the provenance table has the same
\* keys
C13_PrefetchHistory ==
  [][(Ran("prefetch_history") /\ probe'.arg.days >= 0)
       => /\ probe'.result.resolved =
               [k \in 1..(probe'.arg.days + 1) |-> Today - (k - 1)]
          /\ DOMAIN daily_cache' \subseteq {Today}
          /\ DOMAIN cache_source_keys' = DOMAIN daily_cache']_vars
\* a history prefetch over several days has run after another handler and
\* left today's entry alone in the table
C13_Witness ==
  /\ nops = MaxOps
  /\ probe.applied
  /\ probe.arg.op = "prefetch_history"
  /\ probe.arg.days = MaxSpan
  /\ DOMAIN daily_cache = {Today}
  /\ DOMAIN cache_source_keys = {Today}

C15_RetentionFloor ==
  [][Ran("refresh_cache")
       => \A d \in Dates :
            (disk[d].exists /\ Today - d < MIN_RETENTION_DAYS)
              => disk'[d].exists]_vars
\* a refresh configured with a shorter retention has deleted a file
C15_Witness ==
  /\ probe.applied
  /\ probe.arg.op = "refresh_cache"
  /\ probe.arg.conf.numeric
  /\ probe.arg.conf.val < MIN_RETENTION_DAYS
  /\ probe.result.removed # {}

\* _download_city_entry called for one source, over every outcome of the
\* requests of its window
DownloadCity ==
  /\ ~probe.applied
  /\ probe' = [probe EXCEPT !.applied = TRUE,
                 !.result = DownloadCityEntry(probe.arg.source,
                              BuildTargetDates(probe.arg.date_key),
                              probe.arg.outs)]
  /\ UNCHANGED client_vars
InitLookback ==
  InitHelper(UNION {{[source |-> REGION_SOURCES[i], date_key |-> d, outs |-> o] :
                       o \in WindowOutcomes(REGION_SOURCES[i])} :
                    i \in SourceIdx, d \in Dates})
SpecLookback == InitLookback /\ [][DownloadCity]_vars

\* ------------------------------------------- the stale scan on its own
\* the dates with a file name in the cache directory: two at the same
\* distance from a third, and one a year and more away from them
StaleDays == {0, 2, 4, STALE_WINDOW_DAYS + 4}
\* what a file may hold: nothing (no file), one entry naming its day, an
\* empty list, or text json.load rejects
StaleFiles(day) ==
  {AbsentFile, ListFile(<< LiveEntry("13101", "tokyo", Some(12), day) >>),
   ListFile(<< >>), DamagedFile("unreadable")}
\* the orders in which glob may enumerate the files
Perms(S) ==
  {p \in [1..Cardinality(S) -> S] :
     \A i, j \in 1..Cardinality(S) : p[i] = p[j] => i = j}
\* _load_recent_cache(target_key) over a cache directory
ScanCache ==
  /\ ~probe.applied
  /\ probe' = [probe EXCEPT !.applied = TRUE,
                 !.result = LoadRecentCacheFrom(1, probe.arg.order,
                              probe.arg.target, probe.arg.files, {}, None)]
  /\ UNCHANGED client_vars
InitStale ==
  InitHelper({[target |-> t, order |-> o, files |-> f] :
                t \in StaleDays, o \in Perms(StaleDays),
                f \in {g \in [StaleDays -> UNION {StaleFiles(d) : d \in StaleDays}] :
                         \A d \in StaleDays : g[d] \in StaleFiles(d)}})
SpecStale == InitStale /\ [][ScanCache]_vars

\* ------------------------------------------------------- wind direction
\* wind texts are sequences of characters: "N", "E", "S", "W" stand for the
\* compass characters 北, 東, 南, 西 and "x" for any other character; degrees
\* are counted in tenths
MaxWindLen == 4
WindChars == {"N", "E", "S", "W", "x"}
WindTexts == UNION {[1..n -> WindChars] : n \in 0..MaxWindLen}
\* keyword in text
Contains(text, keyword) ==
  \E k \in 0..(Len(text) - Len(keyword)) :
    \A j \in 1..Len(keyword) : text[k + j] = keyword[j]
\* client.py 545-562 with the single characters listed first
direction_map_short_first ==
  << [keyword |-> << "E" >>, degrees |-> 900],
     [keyword |-> << "S" >>, degrees |-> 1800],
     [keyword |-> << "W" >>, degrees |-> 2700],
     [keyword |-> << "N" >>, degrees |-> 0],
     [keyword |-> << "N", "E" >>, degrees |-> 450],
     [keyword |-> << "S", "E" >>, degrees |-> 1350],
     [keyword |-> << "S", "W" >>, degrees |-> 2250],
     [keyword |-> << "N", "W" >>, degrees |-> 3150],
     [keyword |-> << "N", "N", "E" >>, degrees |-> 225],
     [keyword |-> << "E", "N", "E" >>, degrees |-> 675],
     [keyword |-> << "E", "S", "E" >>, degrees |-> 1125],
     [keyword |-> << "S", "S", "E" >>, degrees |-> 1575],
     [keyword |-> << "S", "S", "W" >>, degrees |-> 2025],
     [keyword |-> << "W", "S", "W" >>, degrees |-> 2475],
     [keyword |-> << "W", "N", "W" >>, degrees |-> 2925],
     [keyword |-> << "N", "N", "W" >>, degrees |-> 3375] >>
\* client.py 545-562: direction_map, in list order
direction_map ==
  << [keyword |-> << "N", "N", "E" >>, degrees |-> 225],
     [keyword |-> << "E", "N", "E" >>, degrees |-> 675],
     [keyword |-> << "E", "S", "E" >>, degrees |-> 1125],
     [keyword |-> << "S", "S", "E" >>, degrees |-> 1575],
     [keyword |-> << "S", "S", "W" >>, degrees |-> 2025],
     [keyword |-> << "W", "S", "W" >>, degrees |-> 2475],
     [keyword |-> << "W", "N", "W" >>, degrees |-> 2925],
     [keyword |-> << "N", "N", "W" >>, degrees |-> 3375],
     [keyword |-> << "N", "E" >>, degrees |-> 450],
     [keyword |-> << "S", "E" >>, degrees |-> 1350],
     [keyword |-> << "S", "W" >>, degrees |-> 2250],
     [keyword |-> << "N", "W" >>, degrees |-> 3150],
     [keyword |-> << "E" >>, degrees |-> 900],
     [keyword |-> << "S" >>, degrees |-> 1800],
     [keyword |-> << "W" >>, degrees |-> 2700],
     [keyword |-> << "N" >>, degrees |-> 0] >>
\* _parse_wind_direction: the degrees of the first keyword of the list that
\* occurs in the text
RECURSIVE ParseWindDirectionFrom(_, _)
ParseWindDirectionFrom(i, text) ==
  IF i > Len(direction_map) THEN None
  ELSE IF Contains(text, direction_map[i].keyword)
  THEN Some(direction_map[i].degrees)
  ELSE ParseWindDirectionFrom(i + 1, text)
ParseWindDirection(text) ==
  IF text = << >> THEN None ELSE ParseWindDirectionFrom(1, text)
\* _parse_wind_direction called on a wind text
WindDirection ==
  /\ ~probe.applied
  /\ probe' = [probe EXCEPT !.applied = TRUE,
                            !.result = ParseWindDirection(probe.arg)]
  /\ UNCHANGED client_vars
InitWindDir == InitHelper(WindTexts)
SpecWindDir == InitWindDir /\ [][WindDirection]_vars

\* ------------------------------------------------------------ wind speed
\* wind texts as sequences of the pieces the patterns of _estimate_wind_speed
\* are made of: "VERY" 非常に, "FIERCE" 猛烈, "SOMEWHAT" やや, "STRONG" 強,
\* "KU" く, "WEAK" 弱, "I" い, "CALM" 静穏, "NUM" the digits of 7, "SP" white
\* space, "METRE" メートル, "x" anything else; speeds are counted in tenths
MaxPhraseLen == 3
SpeedPieces ==
  {"VERY", "FIERCE", "SOMEWHAT", "STRONG", "KU", "WEAK", "I", "CALM", "NUM",
   "SP", "METRE", "x"}
SpeedTexts == UNION {[1..n -> SpeedPieces] : n \in 0..MaxPhraseLen}
\* re.search(r"(\d+(?:\.\d+)?)\s*メートル", text)
MatchMetres(text) ==
  \E i, j \in 1..Len(text) :
    /\ i < j
    /\ text[i] = "NUM"
    /\ text[j] = "METRE"
    /\ \A k \in (i + 1)..(j - 1) : text[k] = "SP"
\* _estimate_wind_speed
EstimateWindSpeed(text) ==
  IF text = << >> THEN None
  ELSE IF MatchMetres(text) THEN Some(70)
  ELSE IF Contains(text, << "VERY", "STRONG" >>) \/ Contains(text, << "FIERCE" >>)
  THEN Some(120)
  ELSE IF Contains(text, << "STRONG", "KU" >>) THEN Some(80)
  ELSE IF Contains(text, << "SOMEWHAT", "STRONG" >>) THEN Some(55)
  ELSE IF Contains(text, << "WEAK", "KU" >>) \/ Contains(text, << "WEAK", "I" >>)
  THEN Some(20)
  ELSE IF Contains(text, << "CALM" >>) THEN Some(5)
  ELSE Some(30)
\* _estimate_wind_speed called on a wind text
WindSpeed ==
  /\ ~probe.applied
  /\ probe' = [probe EXCEPT !.applied = TRUE,
                            !.result = EstimateWindSpeed(probe.arg)]
  /\ UNCHANGED client_vars
InitWindSpeed == InitHelper(SpeedTexts)
SpecWindSpeed == InitWindSpeed /\ [][WindSpeed]_vars

\* ------------------------------------------------------- the region registry
\* items of the external region list: a mapping with or without its required
\* keys and a latitude float() accepts or not, or a value that is no mapping
RegionItem(id, name, prefecture, latitude_ok) ==
  [dict |-> TRUE, id |-> id, name |-> name, prefecture |-> prefecture,
   latitude_ok |-> latitude_ok]
NotAMapping ==
  [dict |-> FALSE, id |-> None, name |-> FALSE, prefecture |-> FALSE,
   latitude_ok |-> TRUE]
RegionItems ==
  {RegionItem(Some("sapporo"), TRUE, TRUE, TRUE),
   RegionItem(Some("tokyo"), TRUE, TRUE, TRUE),
   RegionItem(None, TRUE, TRUE, TRUE),
   RegionItem(Some("sapporo"), TRUE, FALSE, TRUE),
   RegionItem(Some("sapporo"), TRUE, TRUE, FALSE),
   NotAMapping}
\* an item _build_region_sources builds a RegionSource from
ValidItem(item) ==
  item.dict /\ item.id # None /\ item.name /\ item.prefecture /\ item.latitude_ok
\* regions.py _build_region_sources from item k on: the ids of the registry
\* in insertion order; a missing key skips the item, any other failure leaves
\* the function
RECURSIVE BuildRegionSources(_, _, _)
BuildRegionSources(items, k, ids) ==
  IF k > Len(items) THEN [raised |-> FALSE, ids |-> ids]
  ELSE LET item == items[k]
       IN IF ~item.dict THEN [raised |-> TRUE, ids |-> << >>]
          ELSE IF item.id = None \/ ~item.prefecture \/ ~item.name
          THEN BuildRegionSources(items, k + 1, ids)
          ELSE IF ~item.latitude_ok THEN [raised |-> TRUE, ids |-> << >>]
          ELSE BuildRegionSources(items, k + 1,
                 IF \E j \in 1..Len(ids) : ids[j] = item.id[1]
                 THEN ids ELSE Append(ids, item.id[1]))
\* the registry built from _DEFAULT_REGION_ITEMS
DefaultRegistry ==
  [i \in 1..Len(DEFAULT_REGION_ITEMS) |-> DEFAULT_REGION_ITEMS[i].id]
\* the states of shared/prefectures.json: missing, not parseable, a value that
\* is no list, a list of items
RegionFiles ==
  {[exists |-> FALSE, parses |-> FALSE, list |-> FALSE, items |-> << >>],
   [exists |-> TRUE, parses |-> FALSE, list |-> FALSE, items |-> << >>],
   [exists |-> TRUE, parses |-> TRUE, list |-> FALSE, items |-> << >>]}
  \cup {[exists |-> TRUE, parses |-> TRUE, list |-> TRUE, items |-> its] :
          its \in UNION {[1..n -> RegionItems] : n \in 0..2}}
\* regions.py _load_region_sources
LoadRegionSources(use_prefecture_data, file) ==
  IF use_prefecture_data /\ file.exists /\ file.parses /\ file.list
     /\ file.items # << >>
     /\ ~BuildRegionSources(file.items, 1, << >>).raised
  THEN BuildRegionSources(file.items, 1, << >>).ids
  ELSE DefaultRegistry
\* the module is imported: REGION_SOURCES = _load_region_sources()
LoadRegions ==
  /\ ~probe.applied
  /\ probe' = [probe EXCEPT !.applied = TRUE,
                 !.result = LoadRegionSources(probe.arg.use, probe.arg.file)]
  /\ UNCHANGED client_vars
InitRegions ==
  InitHelper({[use |-> u, file |-> f] : u \in BOOLEAN, f \in RegionFiles})
SpecRegions == InitRegions /\ [][LoadRegions]_vars


\* the last row of a body for a city code
LastRowOf(rows, city) ==
  rows[CHOOSE i \in 1..Len(rows) :
         /\ rows[i].citycode = city
         /\ \A j \in (i + 1)..Len(rows) : rows[j].citycode # city]
\* C21: the parser maps the sentinel to a reading of 0, gives no reading for
\* any other negative value and for a value that is not a number, drops the
\* rows without a city code, and lets no negative reading out
C21_ParsedReadings ==
  probe.applied =>
    /\ {probe.result[i].citycode : i \in 1..Len(probe.result)}
         = {probe.arg[i].citycode : i \in 1..Len(probe.arg)} \ {""}
    /\ \A i \in 1..Len(probe.result) :
         LET token == LastRowOf(probe.arg, probe.result[i].citycode).pollen
             reading == probe.result[i].pollen
         IN IF ~token.numeric \/ token.nan THEN reading = None
            ELSE IF token.val = SENTINEL THEN reading = Some(0)
            ELSE IF token.val < 0 THEN reading = None
            ELSE reading = Some(token.val)

\* the sample file holds a snapshot of the region
SampleHas(id) ==
  /\ sample_file.exists
  /\ sample_file.list
  /\ \E k \in 1..Len(sample_file.items) : sample_file.items[k].region_id = id
\* C22: the pollen value of a record comes from the live reading of the
\* region's entry in the resolved map when it has one, else from the region's
\* sample snapshot when the sample file has one, else from the static
\* baseline
C22_ValuePrecedence ==
  (reply.called /\ ~reply.raised) =>
    \A i \in 1..Len(reply.records) :
      LET rec == reply.records[i]
          source == RegistryGet(rec.region_id)[1]
          live == /\ source.city_code \in DOMAIN last.result
                  /\ last.result[source.city_code].pollen # None
      IN IF live
         THEN /\ rec.origin = "api"
              /\ rec.pollen_count = last.result[source.city_code].pollen[1]
         ELSE IF SampleHas(rec.region_id)
         THEN rec.origin = "sample"
         ELSE /\ rec.origin = "static"
              /\ rec.pollen_count =
                   BuildPayloadFromStatic(source, static_files).pollen_count[1]
\* a record carries the live reading although the sample file has a
\* snapshot of the region, and another call gave the snapshot
C22_Witness ==
  /\ reply.called
  /\ ~reply.raised
  /\ \E i \in 1..Len(reply.records) :
       /\ reply.records[i].origin = "api"
       /\ SampleHas(reply.records[i].region_id)

\* C23: whenever the external region list is missing, not parseable, not a
\* list, empty or holds an item a RegionSource cannot be built from, the
\* registry is the built-in region set, and the registry is never empty
C23_RegistryFallback ==
  probe.applied =>
    /\ probe.result # << >>
    /\ (\/ ~probe.arg.use
        \/ ~probe.arg.file.exists
        \/ ~probe.arg.file.parses
        \/ ~probe.arg.file.list
        \/ \E k \in 1..Len(probe.arg.file.items) :
              ~ValidItem(probe.arg.file.items[k])
        \/ probe.arg.file.items = << >>)
       => probe.result = DefaultRegistry

\* C24: with a target date every record of the reply is stamped with that
\* date, and with none every record is stamped with the instant of the call
C24_OutputStamping ==
  (reply.called /\ ~reply.raised) =>
    \A i \in 1..Len(reply.records) :
      reply.records[i].timestamp =
        IF reply.target # None THEN Stamp("requested", reply.target[1])
        ELSE Stamp("now", Today)

\* C25: an unforced resolve of a date whose key is in the memory table, an
\* empty map included, returns the stored map, reads and writes no file,
\* fetches nothing and leaves both tables, the files and the raw directories
\* as they were
C25_MemoryTier ==
  [][\A d \in Dates :
       (Returns(d, FALSE) /\ d \in DOMAIN daily_cache)
       => /\ ~last'.raised
          /\ last'.result = daily_cache[d]
          /\ last'.io = NoIo
          /\ UNCHANGED <<daily_cache, cache_source_keys, disk, raw>>]_vars
\* an unforced resolve was answered from memory with a stored empty map
C25_Witness ==
  /\ Resolved
  /\ ~last.force
  /\ last.tier = "memory"
  /\ last.result = EmptyMap
  /\ last.date \in DOMAIN daily_cache

\* the disk tier of an unforced resolve of d: the date is not in memory and
\* the first read of the file gave a value; nothing is fetched, the file is
\* not written
DiskTierQuiet(d) ==
  (Returns(d, FALSE) /\ d \notin DOMAIN daily_cache /\ last'.io.loaded)
  => (~last'.io.fetched /\ ~last'.io.wrote /\ disk'[d] = disk[d])
\* C26 as stated: an unforced resolve whose first read of the file succeeds
\* fetches nothing and does not write the file; a forced resolve never returns
\* the content of the file as its disk tier and always runs the live fetch
C26_DiskTier ==
  [][\A d \in Dates :
       /\ DiskTierQuiet(d)
       /\ Returns(d, TRUE)
            => (last'.tier \notin {"disk", "disk_retry"} /\ last'.io.fetched)]_vars
\* C26 amended: a forced resolve runs the live fetch unless live fetch is
\* disabled, and then runs none
C26_DiskTierAmended ==
  [][\A d \in Dates :
       /\ DiskTierQuiet(d)
       /\ Returns(d, TRUE)
            => /\ last'.tier \notin {"disk", "disk_retry"}
               /\ ~last'.io.loaded
               /\ last'.io.fetched = ~disable_live_fetch]_vars
\* an unforced resolve was answered by the disk tier
C26_Witness ==
  /\ Resolved
  /\ ~last.force
  /\ ~last.raised
  /\ last.tier = "disk"
  /\ last.io.loaded
  /\ ~last.io.fetched
  /\ last.result # EmptyMap

\* the answer to one request carries a numeric, non-negative reading
Qualifies(source, o) ==
  /\ o.kind = "body"
  /\ LET e == ParsedEntryFor(ParseCsvPayload(o.rows), source.city_code)
     IN e # None /\ e[1].pollen # None /\ e[1].pollen[1] >= 0
\* C27: the live fetch of a city asks for the requested date and then the
\* dates before it, one request per date, down to the lookback; it stops at
\* the first date answered with a numeric non-negative reading and returns
\* that reading with that date as its source date, which lies between the
\* requested date minus the lookback and the requested date; it returns no
\* entry when no date of the window qualifies
C27_Lookback ==
  probe.applied =>
    LET r == probe.result
        a == probe.arg
        n == Len(r.tried)
    IN /\ ~r.raised
       /\ n <= LookbackDays + 1
       /\ \A i \in 1..n : r.tried[i] = a.date_key - (i - 1)
       /\ \A i \in 1..(n - 1) : ~Qualifies(a.source, a.outs[i])
       /\ IF n > 0 /\ Qualifies(a.source, a.outs[n])
          THEN /\ r.entry # None
               /\ r.entry[1].source_date = Some(r.tried[n])
               /\ r.tried[n] <= a.date_key
               /\ r.tried[n] >= a.date_key - LookbackDays
               /\ r.entry[1].pollen # None
               /\ r.entry[1].pollen[1] >= 0
          ELSE r.entry = None /\ n = LookbackDays + 1

C29_StaticTier ==
  [][\A d \in Dates : \A f \in BOOLEAN :
       (Returns(d, f) /\ last'.tier # "memory" /\ ~last'.io.loaded
          /\ ~last'.raised)
       => /\ last'.tier \in {"live", "static"}
          /\ ~last'.io.fetched => last'.tier = "static"
          /\ last'.tier = "live" =>
                \E k \in DOMAIN last'.result : last'.result[k].source = "live"
          /\ last'.tier = "static" =>
                /\ \A i \in SourceIdx :
                      /\ REGION_SOURCES[i].city_code \in DOMAIN last'.result
                      /\ last'.result[REGION_SOURCES[i].city_code].region_id
                            = REGION_SOURCES[i].id
                /\ \A k \in DOMAIN last'.result :
                      last'.result[k].source = "static"
                /\ Cardinality({last'.result[k] : k \in DOMAIN last'.result})
                      = Len(REGION_SOURCES)
                /\ d \in DOMAIN daily_cache' =>
                      /\ daily_cache'[d] = last'.result
                      /\ cache_source_keys'[d] = Provenance(TRUE, d)]_vars
\* the live fetch ran and gave nothing, and the baseline was returned with
\* its provenance
C29_Witness ==
  /\ Resolved
  /\ ~last.raised
  /\ last.tier = "static"
  /\ last.io.fetched
  /\ last.date \in DOMAIN cache_source_keys
  /\ cache_source_keys[last.date] = Provenance(TRUE, last.date)

\* C30: when the sound file of d is there, its first read fails and the live
\* fetch brings nothing, the read is made again, and the resolve returns the
\* content of the file and leaves the file as it is
C30_DiskRetry ==
  [][\A d \in Dates :
       (/\ Returns(d, FALSE)
        /\ d \notin DOMAIN daily_cache
        /\ SoundFile(disk[d])
        /\ FirstReadAttempted(disk[d], FALSE, disable_live_fetch)
        /\ ~last'.io.loaded
        /\ last'.tier # "live")
       => /\ ~last'.raised
          /\ last'.result = BuildPollenMap(disk[d].items)
          /\ disk'[d] = disk[d]]_vars

\* the files the stale scan may choose for a target: of another date, read
\* and parsed, not empty, at most STALE_WINDOW_DAYS away
StaleCandidates(target, files) ==
  {k \in DOMAIN files :
     /\ k # target
     /\ files[k].exists /\ files[k].readable
     /\ files[k].shape = "list" /\ files[k].items # << >>
     /\ Abs(k - target) <= 365}
\* C31: the stale scan returns nothing when no file qualifies; else it returns
\* the key and the content of the qualifying file nearest to the target, the
\* later one of two at the same distance, in whatever order the files are
\* enumerated
C31_StaleSelection ==
  probe.applied =>
    LET a == probe.arg
        Q == StaleCandidates(a.target, a.files)
    IN IF Q = {} THEN probe.result = None
       ELSE /\ probe.result # None
            /\ probe.result[1].day \in Q
            /\ \A j \in Q :
                 \/ Abs(probe.result[1].day - a.target) < Abs(j - a.target)
                 \/ /\ Abs(probe.result[1].day - a.target) = Abs(j - a.target)
                    /\ probe.result[1].day >= j
            /\ probe.result[1].payload.items = a.files[probe.result[1].day].items
\* two files at the same distance, the earlier one enumerated last, and the
\* later one chosen; a file just inside the window is a candidate too
C31_Witness ==
  /\ probe.applied
  /\ probe.arg.target = 2
  /\ {0, 4} \subseteq StaleCandidates(2, probe.arg.files)
  /\ \E i, j \in 1..Len(probe.arg.order) :
       i < j /\ probe.arg.order[i] = 4 /\ probe.arg.order[j] = 0
  /\ probe.result # None
  /\ probe.result[1].day = 4

\* the compass tokens and their directions in tenths of a degree
CompassTokens ==
  {<< << "N" >>, 0 >>, << << "N", "N", "E" >>, 225 >>, << << "N", "E" >>, 450 >>,
   << << "E", "N", "E" >>, 675 >>, << << "E" >>, 900 >>,
   << << "E", "S", "E" >>, 1125 >>, << << "S", "E" >>, 1350 >>,
   << << "S", "S", "E" >>, 1575 >>, << << "S" >>, 1800 >>,
   << << "S", "S", "W" >>, 2025 >>, << << "S", "W" >>, 2250 >>,
   << << "W", "S", "W" >>, 2475 >>, << << "W" >>, 2700 >>,
   << << "W", "N", "W" >>, 2925 >>, << << "N", "W" >>, 3150 >>,
   << << "N", "N", "W" >>, 3375 >>}
Occurring(text) == {t \in CompassTokens : Contains(text, t[1])}
\* C32: the direction of a wind text is the direction of one of the longest
\* compass tokens that occur in it, and there is none when no token occurs
C32_WindDirection ==
  probe.applied =>
    IF Occurring(probe.arg) = {} THEN probe.result = None
    ELSE /\ probe.result # None
         /\ \E t \in Occurring(probe.arg) :
              /\ t[2] = probe.result[1]
              /\ \A u \in Occurring(probe.arg) : Len(u[1]) <= Len(t[1])
\* a text holding a three-character token gives its direction and not that
\* of the two-character and single-character tokens inside it
C32_Witness ==
  /\ probe.applied
  /\ probe.arg = << "x", "N", "N", "E" >>
  /\ probe.result = Some(225)

\* the intensity phrases of a text, each with its rank: a "strong" that is
\* part of "very strong" or of "somewhat strong" is not the strong phrase
Intensities(text) ==
  {r \in {120, 80, 55, 20, 5} :
     \/ r = 120 /\ (Contains(text, << "VERY", "STRONG" >>)
                      \/ Contains(text, << "FIERCE" >>))
     \/ r = 55 /\ Contains(text, << "SOMEWHAT", "STRONG" >>)
     \/ r = 80 /\ \E k \in 1..(Len(text) - 1) :
                    /\ text[k] = "STRONG" /\ text[k + 1] = "KU"
                    /\ ~(k > 1 /\ text[k - 1] \in {"VERY", "SOMEWHAT"})
     \/ r = 20 /\ (Contains(text, << "WEAK", "KU" >>)
                     \/ Contains(text, << "WEAK", "I" >>))
     \/ r = 5 /\ Contains(text, << "CALM" >>)}
\* C33: a number of metres in the text is the speed; else a text with one
\* intensity phrase gets the rank of that phrase (somewhat strong 5.5, not
\* the 8.0 of strong), and a text with none gets the default 3.0
C33_WindSpeed ==
  (probe.applied /\ probe.arg # << >>) =>
    IF MatchMetres(probe.arg) THEN probe.result = Some(70)
    ELSE IF Intensities(probe.arg) = {} THEN probe.result = Some(30)
    ELSE \A r \in Intensities(probe.arg) :
           Intensities(probe.arg) = {r} => probe.result = Some(r)

\* the file holds live entries and nothing else
HoldsLive(file) ==
  /\ SoundFile(file)
  /\ \A k \in 1..Len(file.items) : file.items[k].source = "live"
\* C34: when the file of d holds live entries, a resolve of d, forced or not,
\* whose live fetch brings nothing leaves the file as it is
C34_LiveNeverReplaced ==
  [][\A d \in Dates : \A f \in BOOLEAN :
       (Returns(d, f) /\ HoldsLive(disk[d]) /\ last'.tier # "live")
       => disk'[d] = disk[d]]_vars

\* C35: no refresh is lost. Once refresh_cache has completed its forced
\* resolve of today and no later resolve of today has completed, the memory
\* entry of today is the map that resolve returned, also after a
\* prefetch_history that was already running has finished.
C35_NoLostRefresh ==
  (last.op = "refresh_cache" /\ ~last.raised)
    => /\ Today \in DOMAIN daily_cache
       /\ daily_cache[Today] = last.result

\* C36: weather is for the requested date. The entry _get_weather_for_city
\* returns for target date T was read from the forecast of T (of today
\* without a target), also when the city was served for another target date
\* within the TTL.
C36_WeatherForTarget ==
  (probe.applied /\ ~probe.result.raised /\ probe.result.entry # None)
    => probe.result.entry[1].forecast_date
         = (IF probe.arg.target = None THEN Today ELSE probe.arg.target[1])

\* C37: fetch_regions leaves its cached inputs as they were loaded. After a
\* call the cached sample records equal the records of the sample file, so
\* the requested date and the weather block of a record do not depend on
\* earlier calls.
C37_CachedInputsUnchanged ==
  (reply.called /\ sample_cache # None) => sample_cache[1] = sample_file.items

\* C38: the stale tier has no disk effect. When a resolve of D is answered
\* from the aggregate file of another date, no aggregate file changes (none
\* appears for D, the other date's file stays as it is), no memory entry of
\* another date is added or changed, and the entry of D, unless pruning
\* evicted it at once, holds the returned map with a provenance that names
\* the date whose file the map was built from.
C38_StaleNoDiskEffect ==
  [][\A d \in Dates : \A f \in BOOLEAN :
       (Returns(d, f) /\ last'.tier = "stale" /\ ~last'.raised)
       => /\ disk' = disk
          /\ \A k \in (DOMAIN daily_cache') \ {d} :
               k \in DOMAIN daily_cache /\ daily_cache'[k] = daily_cache[k]
          /\ d \in DOMAIN daily_cache'
               => /\ daily_cache'[d] = last'.result
                  /\ d \in DOMAIN cache_source_keys'
                  /\ ~cache_source_keys'[d].static
                  /\ cache_source_keys'[d].key # d
                  /\ disk[cache_source_keys'[d].key].exists
                  /\ BuildPollenMap(disk[cache_source_keys'[d].key].items)
                       = last'.result]_vars
\* a resolve answered from another date's file, its map kept in memory
C38_Witness ==
  /\ last.op = "resolve"
  /\ last.tier = "stale"
  /\ ~last.raised
  /\ last.result # EmptyMap
  /\ last.date \in DOMAIN daily_cache
  /\ cache_source_keys[last.date].key # last.date
  /\ ~disk[last.date].exists \/ disk[last.date].items = <<>>

\* C39: between operations the provenance table and the in-memory date
\* table have the same set of date keys: every resolve (its prune included),
\* refresh_cache, prefetch_date_range and prefetch_history adds or removes a
\* key in both tables or in neither.
C39_SameKeys == DOMAIN cache_source_keys = DOMAIN daily_cache
\* a prefetch_date_range that kept a date left both tables with that date
C39_Witness ==
  /\ probe.applied
  /\ probe.arg.op = "prefetch_date_range"
  /\ probe.arg.keep_keys # {}
  /\ probe.arg.start < probe.arg.end
  /\ DOMAIN daily_cache = probe.arg.keep_keys
  /\ DOMAIN cache_source_keys = probe.arg.keep_keys

====
